---- MODULE Spec2Model ----
(***************************************************************************)
(* State-machine model of the extraction engine of scraparoni              *)
(* (src/scraparoni/extractor.py, class ScraparoniExtractor).               *)
(*                                                                         *)
(* Documents and chunks are long (the overlap of two chunks alone is 1000   *)
(* characters), so such a str is held as its length and its characters     *)
(* other than the filler character: [len |-> n, at |-> (position :> char)] *)
(* with positions 1..n; every position outside DOMAIN at holds Filler.     *)
(* Short strs (field names, descriptions, keywords) are sequences of       *)
(* one-character strings.  Python offsets (start, end) stay 0-based.       *)
(* A JSON / Python value is a tagged record: [t |-> "null"],               *)
(* [t |-> "str", s |-> ...], [t |-> "int", n |-> ...],                     *)
(* [t |-> "list", items |-> <<...>>].                                      *)
(***************************************************************************)
EXTENDS Integers, Sequences, FiniteSets, TLC

VARIABLES
    \* arguments of extract (extractor.py:64-73)
    html_content, schema, max_length, smart_chunking,
    \* control: position inside extract, and which path it took
    pc, path,
    \* locals of _extract_chunked (extractor.py:155-174)
    field_keywords, scored_chunks, rank, best_result, best_data_count,
    \* frame of _create_chunks (extractor.py:241-251)
    text, chunk_size, overlap, start, chunks,
    \* observation: the value of `start` at each chunks.append
    chunk_starts,
    \* observation: every oracle invocation (_generate) with what came of it
    calls,
    \* what extract gave its caller: a returned model or a raised error
    outcome,
    \* frame of _extract_json_from_tags (extractor.py:372-409): its argument
    \* (text in the source), its json_str, and what it returned or raised
    llm_response, json_text, parsed,
    \* frame of _score_chunk_relevance (extractor.py:253-257) and its value
    arg_chunk, arg_keywords, relevance,
    \* the list _extract_keywords_from_schema returns (extractor.py:239)
    keyword_list,
    \* _is_empty_extraction (core.py:336-358) and _count_data_items
    \* (extractor.py:215-223): the model, and the value of each
    extraction, is_empty, item_count,
    \* BrowserScraper (scrapers.py:118-255): self._playwright and self._browser
    \* are set; the automation engine, the browser and the browser context of
    \* the fetch as they are; the arguments of fetch; an exception of the with
    \* body on its way through __exit__; what the with statement gave its caller
    self_playwright, self_browser, engine, browser, context, fetch_opts, raising,
    session,
    \* a call of fetch or fetch_with_interaction made outside the with statement
    outside_call,
    \* Scraparoni.scrape (core.py:84-145): its arguments, the html it holds, a
    \* log of the fetches and extractions it made, what it gave its caller
    use_browser, auto_fallback, page_html, scrape_log, scrape_out,
    \* Scraparoni.scrape_many (core.py:233-265): the number of urls, the results
    \* list, and a log of how the scrape of each url ended
    urls, many_results, scraped,
    \* callers of extract on one engine: whether they serialize themselves and
    \* who holds their lock; per caller the generations in flight in
    \* model.generate and the generations finished
    serialized, lock_holder, in_flight, generated,
    \* the attributes of the ScraparoniExtractor (extractor.py:45, 55) and the
    \* number of the extract call under way on it, and how the earlier calls ended
    engine_self, call_no, past_outcomes,
    \* ScraparoniExtractor.extract_batch (extractor.py:259-282): its documents,
    \* its results list, a log of the extract calls it made, how it ended
    html_contents, batch_results, batch_log, batch_out

parseVars == <<llm_response, json_text, parsed>>
scoreVars == <<arg_chunk, arg_keywords, relevance>>
resultVars == <<extraction, is_empty, item_count>>
browserVars == <<self_playwright, self_browser, engine, browser, context, fetch_opts,
                 raising, session>>
scrapeVars == <<use_browser, auto_fallback, page_html, scrape_log, scrape_out,
                urls, many_results, scraped>>
concVars == <<serialized, lock_holder, in_flight, generated>>
batchVars == <<html_contents, batch_results, batch_log, batch_out>>
callVars == <<engine_self, call_no, past_outcomes, batchVars>>
laterVars == <<outside_call, scrapeVars, concVars, callVars>>
auxVars == <<parseVars, scoreVars, keyword_list, resultVars, browserVars, laterVars>>

vars == <<html_content, schema, max_length, smart_chunking, pc, path,
          field_keywords, scored_chunks, rank, best_result, best_data_count,
          text, chunk_size, overlap, start, chunks, chunk_starts, calls, outcome,
          auxVars>>

\* every variable of extract and _create_chunks but pc and schema
engineVars == <<html_content, max_length, smart_chunking, path,
                field_keywords, scored_chunks, rank, best_result, best_data_count,
                text, chunk_size, overlap, start, chunks, chunk_starts, calls, outcome>>

extractVars == <<html_content, schema, max_length, smart_chunking, path,
                 field_keywords, scored_chunks, rank, best_result,
                 best_data_count, calls, outcome>>

-----------------------------------------------------------------------------
(* Bounds of the model *)

\* cap on the list built by _create_chunks: a loop still running with this many
\* chunks is not followed further
MaxChunks == 5
\* SpecSplit: longest document, largest chunk_size and overlap tried
MaxSplitLen == 4
MaxSplitSize == 3
\* Spec: most characters of a document that are not filler
MaxMarks == 2
\* SpecParse: longest string inside a JSON value
MaxStrLen == 2
\* SpecScore: longest chunk
MaxScoreLen == 3
\* SpecKeywords: most fields of a schema
MaxSchemaFields == 2
\* SpecEmpty, SpecCount: most fields of a result
MaxResultFields == 5
MaxCountFields == 2

-----------------------------------------------------------------------------
(* Python str primitives *)

Min(a, b) == IF a < b THEN a ELSE b
Max(a, b) == IF a > b THEN a ELSE b

Filler == "x"
EmptyStr == [len |-> 0, at |-> << >>]

\* len(s) and s[p - 1] of a document or chunk
StrLen(s) == s.len
CharAt(s, p) == IF p \in DOMAIN s.at THEN s.at[p] ELSE Filler

\* s[a:b] for ints a, b: negative offsets count from the end, both are clamped
PySlice(s, a, b) ==
    LET n  == StrLen(s)
        lo == IF a < 0 THEN Max(n + a, 0) ELSE Min(a, n)
        hi == IF b < 0 THEN Max(n + b, 0) ELSE Min(b, n)
    IN  IF lo >= hi THEN EmptyStr
        ELSE [len |-> hi - lo,
              at  |-> [p \in {q - lo : q \in {r \in DOMAIN s.at : lo < r /\ r <= hi}}
                         |-> s.at[p + lo]]]

-----------------------------------------------------------------------------
(* _create_chunks: the while loop, one iteration per step *)

\* extractor.py:246  while start < len(text)
create_chunks_running(st, txt) == st < StrLen(txt)

\* mutant: the window is not moved back by the overlap
create_chunks_advance_no_overlap(st, size, ov) == st + size

\* extractor.py:249  start += chunk_size - overlap
create_chunks_advance(st, size, ov) == st + (size - ov)

\* extractor.py:247-248  end = start + chunk_size; chunks.append(text[start:end])
create_chunks_window(txt, st, size) == PySlice(txt, st, st + size)

\* one iteration of the loop body (extractor.py:246-249)
create_chunks_step ==
    /\ pc = "create_chunks"
    /\ create_chunks_running(start, text)
    /\ Len(chunks) < MaxChunks
    /\ chunks' = Append(chunks, create_chunks_window(text, start, chunk_size))
    /\ chunk_starts' = Append(chunk_starts, start)
    /\ start' = create_chunks_advance(start, chunk_size, overlap)
    /\ UNCHANGED <<pc, text, chunk_size, overlap>>
    /\ UNCHANGED extractVars
    /\ UNCHANGED auxVars

\* loop exit and return chunks (extractor.py:246, 251)
create_chunks_return ==
    /\ pc = "create_chunks"
    /\ ~create_chunks_running(start, text)
    /\ pc' = "chunks_ready"
    /\ UNCHANGED <<text, chunk_size, overlap, start, chunks, chunk_starts>>
    /\ UNCHANGED extractVars
    /\ UNCHANGED auxVars

-----------------------------------------------------------------------------
(* Python str primitives used by the chunked path *)

\* str.lower() on the characters the model uses
LowerChar(c) ==
    CASE c = "A" -> "a" [] c = "B" -> "b" [] c = "C" -> "c"
      [] c = "D" -> "d" [] c = "E" -> "e" [] c = "O" -> "o"
      [] c = "Y" -> "y" [] OTHER -> c
\* of a short str, and of a document or chunk (the filler is lower case)
Lower(s) == [i \in 1..Len(s) |-> LowerChar(s[i])]
LowerText(s) == [len |-> s.len, at |-> [p \in DOMAIN s.at |-> LowerChar(s.at[p])]]

\* the 0-based offsets at which needle can occur in hay: all that leave room
\* for it; when needle has a character other than the filler, only those that
\* put that character on a character of hay other than the filler
MatchStarts(hay, needle) ==
    LET room   == 0..(StrLen(hay) - Len(needle))
        marked == {i \in 1..Len(needle) : needle[i] # Filler}
    IN  IF marked = {} THEN room
        ELSE LET i == CHOOSE j \in marked : TRUE
             IN  {q - i : q \in DOMAIN hay.at} \cap room

\* needle in hay, needle a short str and hay a document or chunk (substring
\* test; the empty needle is in every str)
Contains(hay, needle) ==
    \E p \in MatchStarts(hay, needle) :
        \A i \in 1..Len(needle) : CharAt(hay, p + i) = needle[i]

\* \w of the regular expression: every character but the separators
NonWordChars == {" ", "-", ".", ","}
IsWordChar(c) == c \notin NonWordChars

\* re.findall(r'\w+', s): the maximal runs of word characters, left to right
RECURSIVE FindAllWords(_, _, _)
FindAllWords(s, i, cur) ==
    IF i > Len(s)
    THEN IF cur = << >> THEN << >> ELSE <<cur>>
    ELSE IF IsWordChar(s[i])
         THEN FindAllWords(s, i + 1, Append(cur, s[i]))
         ELSE (IF cur = << >> THEN << >> ELSE <<cur>>) \o FindAllWords(s, i + 1, << >>)

Range(f) == {f[i] : i \in DOMAIN f}

-----------------------------------------------------------------------------
(* Schemas: the pydantic models handed to extract.  A field is               *)
(* [name, description, type, optional]; optional means Optional[T] = None.   *)

SchemaEmpty == << >>

\* keywords {a, b}
SchemaPair ==
    << [name |-> <<"A">>, description |-> << >>, type |-> "str", optional |-> FALSE],
       [name |-> <<"b">>, description |-> <<"A", " ", "b">>, type |-> "list_str",
        optional |-> TRUE] >>

\* keywords {a, b, c, d, e}
SchemaFive ==
    << [name |-> <<"A">>, description |-> <<"b", " ", "C">>, type |-> "str",
        optional |-> FALSE],
       [name |-> <<"D">>, description |-> <<"e", "-", "a">>, type |-> "int",
        optional |-> TRUE] >>

Schemas == {SchemaEmpty, SchemaPair, SchemaFive}

\* _extract_keywords_from_schema: the list built by the loop ...
\* the fields of the models a schema's fields refer to (in the JSON schema
\* they are listed under "$defs")
RECURSIVE defs_fields(_, _)
defs_fields(sch, i) ==
    IF i > Len(sch) THEN << >>
    ELSE (IF sch[i].type \in {"obj", "list_obj"} THEN sch[i].fields ELSE << >>)
         \o defs_fields(sch, i + 1)

\* mutant: the fields of the referenced models are read as well
schema_properties_with_defs(sch) == sch \o defs_fields(sch, 1)

\* extractor.py:228  schema_json.get("properties", {}): the fields of the
\* schema itself
schema_properties(sch) == sch

RECURSIVE keywords_list(_, _)
keywords_list(sch, i) ==
    IF i > Len(sch) THEN << >>
    ELSE <<Lower(sch[i].name)>>
         \o FindAllWords(Lower(sch[i].description), 1, << >>)
         \o keywords_list(sch, i + 1)

\* ... and list(set(keywords)): no order is promised, so the result is a set
extract_keywords_from_schema(sch) == Range(keywords_list(schema_properties(sch), 1))

\* mutant: the list is returned as the loop built it
list_of_set_keeps_all(lst) == {lst}

\* extractor.py:239  list(set(keywords)) as a list: each member of the set
\* once, in any of the orders the set may be iterated in
list_of_set(lst) ==
    LET members == Range(lst)
    IN  {order \in [1..Cardinality(members) -> members] : Range(order) = members}

-----------------------------------------------------------------------------
(* Relevance score: an exact fraction [num, den]; Python's float quotient    *)
(* of two small ints compares with 0.4 and with other quotients as the       *)
(* fractions do                                                              *)

ScoreLess(a, b) == a.num * b.den < b.num * a.den

\* mutant: the chunk is searched as it is, not lower-cased
score_chunk_relevance_case_sensitive(chunk, keywords) ==
    LET matches == Cardinality({k \in keywords : Contains(chunk, k)})
    IN  IF keywords # {} THEN [num |-> matches, den |-> Cardinality(keywords)]
        ELSE [num |-> 0, den |-> 1]

\* _score_chunk_relevance (extractor.py:253-257)
score_chunk_relevance(chunk, keywords) ==
    LET chunk_lower == LowerText(chunk)
        matches == Cardinality({k \in keywords : Contains(chunk_lower, k)})
    IN  IF keywords # {} THEN [num |-> matches, den |-> Cardinality(keywords)]
        ELSE [num |-> 0, den |-> 1]

\* extractor.py:178  score < 0.4
below_floor_inclusive(score) == score.num * 10 <= 4 * score.den
below_floor(score) == score.num * 10 < 4 * score.den

\* extractor.py:162-165: (score, i, chunk) for every chunk, in document order
RECURSIVE score_chunks(_, _, _)
score_chunks(chs, keywords, i) ==
    IF i > Len(chs) THEN << >>
    ELSE <<[score |-> score_chunk_relevance(chs[i], keywords), i |-> i - 1,
            chunk |-> chs[i]]>>
         \o score_chunks(chs, keywords, i + 1)

\* mutant: ties come out in descending chunk index, as sort(reverse=True) on the
\* whole tuple would give
sort_insert_ties_reversed(sorted, e) ==
    LET k == Cardinality({j \in 1..Len(sorted) : ScoreLess(e.score, sorted[j].score)})
    IN  SubSeq(sorted, 1, k) \o <<e>> \o SubSeq(sorted, k + 1, Len(sorted))

\* list.sort(reverse=True, key=score) is stable: an element goes after every
\* element whose score is not smaller
sort_insert(sorted, e) ==
    LET k == Cardinality({j \in 1..Len(sorted) : ~ScoreLess(sorted[j].score, e.score)})
    IN  SubSeq(sorted, 1, k) \o <<e>> \o SubSeq(sorted, k + 1, Len(sorted))

\* extractor.py:168  scored_chunks.sort(reverse=True, key=lambda x: x[0])
RECURSIVE sort_by_score(_, _)
sort_by_score(seq, n) ==
    IF n = 0 THEN << >> ELSE sort_insert(sort_by_score(seq, n - 1), seq[n])

-----------------------------------------------------------------------------
(* The oracle's output and _extract_json_from_tags.  An output is a sequence *)
(* of lexemes: the tag markers in either case, the JSON punctuation, blanks, *)
(* literals, letters, prose ("junk"), and atoms that each stand for the      *)
(* member list of one JSON object.                                           *)

JNull == [t |-> "null"]
JStr(s) == [t |-> "str", s |-> s]
JInt(n) == [t |-> "int", n |-> n]
JBool(b) == [t |-> "bool", b |-> b]
JList(items) == [t |-> "list", items |-> items]
JObj(fields) == [t |-> "obj", fields |-> fields]
NoneValue == [t |-> "none"]

PayloadAtoms == {"p_missing", "p_blank", "p_zero", "p_one", "p_one_alt", "p_three"}

\* the members of the JSON object an atom stands for: member name to value
Payload(a) ==
    CASE a = "p_missing" -> (<<"b">> :> JList(<<JStr(<<"i">>)>>))
      [] a = "p_blank"   -> (<<"A">> :> JStr(<< >>))
      [] a = "p_zero"    -> (<<"A">> :> JStr(<< >>) @@ <<"D">> :> JInt(0))
      [] a = "p_one"     -> (<<"A">> :> JStr(<<"v">>))
      [] a = "p_one_alt" -> (<<"A">> :> JStr(<<"w">>) @@ <<"b">> :> JList(<<JStr(<< >>)>>))
      [] a = "p_three"   -> (<<"A">> :> JStr(<<"v">>)
                             @@ <<"b">> :> JList(<<JStr(<<"i">>), JStr(<<"j">>)>>))

Responses ==
    { <<"<json>", "{", "p_one", "}", "</json>">>,
      <<"<JSON>", " ", "{", "p_three", "}", " ", "</JSON>">>,
      <<"junk", "{", "p_one_alt", "}", "junk">>,
      <<"<json>", "{", "p_blank", "}", "</json>", "junk">>,
      <<"{", "p_missing", "}">>,
      <<"<json>", "{", "p_zero", "}", "</json>">>,
      <<"junk">>,
      <<"<json>", "junk", "</json>", "{", "p_one", "}">>,
      <<"{", "junk", "}", "{", "p_one", "}">> }

OpenTags == {"<json>", "<JSON>"}
CloseTags == {"</json>", "</JSON>"}

SetMin(S) == CHOOSE x \in S : \A y \in S : x <= y
SetMax(S) == CHOOSE x \in S : \A y \in S : x >= y

\* str.strip(): blanks removed at both ends
RECURSIVE Strip(_)
Strip(s) ==
    IF s = << >> THEN s
    ELSE IF Head(s) = " " THEN Strip(Tail(s))
    ELSE IF s[Len(s)] = " " THEN Strip(SubSeq(s, 1, Len(s) - 1))
    ELSE s

\* the JSON decoder: a value read at position i of s is [ok, value, next]
Quote == "\""
IntLexemes == {"0", "1"}
IntOf(lx) == IF lx = "0" THEN 0 ELSE 1
BadJson == [ok |-> FALSE, value |-> NoneValue, next |-> 0]
Decoded(v, next) == [ok |-> TRUE, value |-> v, next |-> next]

\* first position from i on that holds no blank (Len(s) + 1 when none is left)
SkipWs(s, i) ==
    SetMin({j \in i..(Len(s) + 1) : IF j > Len(s) THEN TRUE ELSE s[j] # " "})

\* a string: from the quote at i to the next quote
decode_string(s, i) ==
    LET closing == {j \in (i + 1)..Len(s) : s[j] = Quote}
    IN  IF closing = {} THEN BadJson
        ELSE LET j == SetMin(closing)
             IN  Decoded(JStr(SubSeq(s, i + 1, j - 1)), j + 1)

RECURSIVE decode_value(_, _)
RECURSIVE decode_items(_, _, _)
RECURSIVE decode_members(_, _, _)

\* the items of an array from position i on, acc the items read so far
decode_items(s, i, acc) ==
    LET item == decode_value(s, SkipWs(s, i))
    IN  IF ~item.ok THEN BadJson
        ELSE LET j == SkipWs(s, item.next)
             IN  IF j > Len(s) THEN BadJson
                 ELSE IF s[j] = "]" THEN Decoded(JList(Append(acc, item.value)), j + 1)
                 ELSE IF s[j] = "," THEN decode_items(s, j + 1, Append(acc, item.value))
                 ELSE BadJson

\* the members of an object from position i on; a repeated name keeps its
\* last value
decode_members(s, i, acc) ==
    LET k == SkipWs(s, i)
    IN  IF k > Len(s) THEN BadJson
        ELSE IF s[k] # Quote THEN BadJson
        ELSE LET name == decode_string(s, k)
             IN  IF ~name.ok THEN BadJson
                 ELSE LET c == SkipWs(s, name.next)
                      IN  IF c > Len(s) THEN BadJson
                          ELSE IF s[c] # ":" THEN BadJson
                          ELSE LET v == decode_value(s, SkipWs(s, c + 1))
                               IN  IF ~v.ok THEN BadJson
                                   ELSE LET j   == SkipWs(s, v.next)
                                            all == (name.value.s :> v.value) @@ acc
                                        IN  IF j > Len(s) THEN BadJson
                                            ELSE IF s[j] = "}" THEN Decoded(JObj(all), j + 1)
                                            ELSE IF s[j] = "," THEN decode_members(s, j + 1, all)
                                            ELSE BadJson

decode_value(s, i) ==
    IF i > Len(s) THEN BadJson
    ELSE IF s[i] = "null" THEN Decoded(JNull, i + 1)
    ELSE IF s[i] = "true" THEN Decoded(JBool(TRUE), i + 1)
    ELSE IF s[i] = "false" THEN Decoded(JBool(FALSE), i + 1)
    ELSE IF s[i] \in IntLexemes THEN Decoded(JInt(IntOf(s[i])), i + 1)
    ELSE IF s[i] = Quote THEN decode_string(s, i)
    ELSE IF s[i] = "[" THEN
        LET j == SkipWs(s, i + 1)
        IN  IF j > Len(s) THEN BadJson
            ELSE IF s[j] = "]" THEN Decoded(JList(<< >>), j + 1)
            ELSE decode_items(s, j, << >>)
    ELSE IF s[i] = "{" THEN
        LET j == SkipWs(s, i + 1)
        IN  IF j > Len(s) THEN BadJson
            ELSE IF s[j] = "}" THEN Decoded(JObj(<< >>), j + 1)
            ELSE IF s[j] \in PayloadAtoms THEN
                LET e == SkipWs(s, j + 1)
                IN  IF e > Len(s) THEN BadJson
                    ELSE IF s[e] = "}" THEN Decoded(JObj(Payload(s[j])), e + 1)
                    ELSE BadJson
            ELSE decode_members(s, j, << >>)
    ELSE BadJson

\* json.loads (extractor.py:404): one value, blanks allowed around it, nothing
\* else after it; ok = FALSE is json.JSONDecodeError
json_loads(json_str) ==
    LET v == decode_value(json_str, SkipWs(json_str, 1))
    IN  IF ~v.ok THEN [ok |-> FALSE, value |-> NoneValue]
        ELSE IF SkipWs(json_str, v.next) <= Len(json_str)
        THEN [ok |-> FALSE, value |-> NoneValue]
        ELSE [ok |-> TRUE, value |-> v.value]

\* where a match of r'<json>(.*?)</json>' can begin (IGNORECASE, DOTALL)
tag_opens(txt) ==
    {i \in 1..Len(txt) : txt[i] \in OpenTags
        /\ \E j \in (i + 1)..Len(txt) : txt[j] \in CloseTags}

\* mutant: the group runs to the last closing tag (.* in place of .*?)
tag_close_greedy(txt, i) == SetMax({k \in (i + 1)..Len(txt) : txt[k] \in CloseTags})

\* where the match that begins at i ends: .*? stops at the first closing tag
tag_close(txt, i) == SetMin({k \in (i + 1)..Len(txt) : txt[k] \in CloseTags})

\* where a match of r'\{.*\}' can begin (DOTALL)
brace_opens(txt) ==
    {i \in 1..Len(txt) : txt[i] = "{" /\ \E j \in (i + 1)..Len(txt) : txt[j] = "}"}

\* mutant: the span ends at the first closing brace (.*? in place of .*)
brace_close_lazy(txt, i) == SetMin({k \in (i + 1)..Len(txt) : txt[k] = "}"})

\* where the match that begins at i ends: .* runs to the last closing brace
brace_close(txt, i) == SetMax({k \in (i + 1)..Len(txt) : txt[k] = "}"})

\* mutant: with neither pattern matching, the whole text is the candidate
no_candidate_whole_text(txt) == [found |-> TRUE, json_str |-> txt]

\* extractor.py:393-397: neither pattern matches, ValueError
no_candidate(txt) == [found |-> FALSE, json_str |-> << >>]

\* extractor.py:385-400: the candidate json_str, if one is located
locate_json(txt) ==
    IF tag_opens(txt) # {}
    THEN LET i == SetMin(tag_opens(txt))
         IN  [found |-> TRUE,
              json_str |-> Strip(SubSeq(txt, i + 1, tag_close(txt, i) - 1))]
    ELSE IF brace_opens(txt) # {}
    THEN LET i == SetMin(brace_opens(txt))
         IN  [found |-> TRUE, json_str |-> SubSeq(txt, i, brace_close(txt, i))]
    ELSE no_candidate(txt)

\* _extract_json_from_tags (extractor.py:385-409); ok = FALSE is the ValueError
extract_json_from_tags(txt) ==
    LET located == locate_json(txt)
    IN  IF located.found THEN json_loads(located.json_str)
        ELSE [ok |-> FALSE, value |-> NoneValue]

-----------------------------------------------------------------------------
(* schema.model_validate and model_dump (pydantic)                           *)

type_ok(field, v) ==
    \/ field.optional /\ v.t = "null"
    \/ field.type = "str" /\ v.t = "str"
    \/ field.type = "int" /\ v.t = "int"
    \/ field.type = "list_str" /\ v.t = "list"
         /\ \A j \in 1..Len(v.items) : v.items[j].t = "str"

FieldNames(sch) == {sch[i].name : i \in 1..Len(sch)}

\* extractor.py:139  schema.model_validate(json_data); members the schema does
\* not name are ignored, an absent optional field takes its default None
model_validate(sch, obj) ==
    IF obj.t # "obj" THEN [ok |-> FALSE, result |-> NoneValue]
    ELSE IF \A i \in 1..Len(sch) :
          IF sch[i].name \in DOMAIN obj.fields
          THEN type_ok(sch[i], obj.fields[sch[i].name])
          ELSE sch[i].optional
    THEN [ok |-> TRUE,
          result |-> [t |-> "model",
                      data |-> [n \in FieldNames(sch) |->
                                  IF n \in DOMAIN obj.fields THEN obj.fields[n]
                                  ELSE JNull]]]
    ELSE [ok |-> FALSE, result |-> NoneValue]

\* Python truth value of a JSON value
Truthy(v) ==
    CASE v.t = "null" -> FALSE
      [] v.t = "str"  -> v.s # << >>
      [] v.t = "int"  -> v.n # 0
      [] v.t = "bool" -> v.b
      [] v.t = "list" -> v.items # << >>
      [] v.t = "obj"  -> DOMAIN v.fields # {}
      [] OTHER        -> TRUE

\* extractor.py:219-222: what one field adds to the count
count_value(v) ==
    IF v.t = "list"
    THEN Cardinality({j \in 1..Len(v.items) : Truthy(v.items[j])})
    ELSE IF Truthy(v) THEN 1 ELSE 0

RECURSIVE count_over(_, _)
count_over(data, keys) ==
    IF keys = {} THEN 0
    ELSE LET k == CHOOSE x \in keys : TRUE
         IN  count_value(data[k]) + count_over(data, keys \ {k})

\* _count_data_items (extractor.py:215-223)
count_data_items(data) == count_over(data, DOMAIN data)

-----------------------------------------------------------------------------
(* _extract_single: prompt, one oracle invocation, parse, validate           *)

NoOutcome == [kind |-> "none", error |-> "none", result |-> NoneValue]
Raised(e) == [kind |-> "raised", error |-> e, result |-> NoneValue]
Returned(r) == [kind |-> "returned", error |-> "none", result |-> r]

\* extractor.py:131-136  what self._generate(...) ends with: the decoded text,
\* or an exception of the tokenizer or of model.generate (extractor.py:338-368)
Generated(txt) == [ok |-> TRUE, text |-> txt]
GenerateFailed == [ok |-> FALSE, text |-> << >>]
Generations == {GenerateFailed} \cup {Generated(txt) : txt \in Responses}

\* extractor.py:131-139: the exception of _generate leaves _extract_single as
\* it is; a response goes through the parser and the validation
extract_single(response, sch) ==
    IF ~response.ok THEN Raised("oracle")
    ELSE LET json_data == extract_json_from_tags(response.text)
         IN  IF ~json_data.ok THEN Raised("format")
             ELSE LET v == model_validate(sch, json_data.value)
                  IN  IF v.ok THEN Returned(v.result) ELSE Raised("validation")

\* one oracle invocation as the model records it
Call(phase, i, html, out) == [phase |-> phase, i |-> i, html |-> html, out |-> out]

-----------------------------------------------------------------------------
(* extract (extractor.py:64-110) and _extract_chunked (extractor.py:141-213) *)

\* extractor.py:159  overlap=1000
Overlap == 1000

\* mutant: a document of exactly max_length characters is sent to chunking
use_single_path_strict(html, max_len, smart) == StrLen(html) < max_len \/ ~smart

\* extractor.py:93  len(html_content) <= max_length or not smart_chunking
use_single_path(html, max_len, smart) == StrLen(html) <= max_len \/ ~smart

\* mutant: the document is handed over whole
single_shot_input_whole(html, max_len) == html

\* extractor.py:95  html_content[:max_length]
single_shot_input(html, max_len) == PySlice(html, 0, max_len)

\* single-shot path (extractor.py:93-100, 112-139)
extract_single_shot ==
    /\ pc = "extract"
    /\ use_single_path(html_content, max_length, smart_chunking)
    /\ \E response \in Generations :
          LET html == single_shot_input(html_content, max_length)
              out  == extract_single(response, schema)
          IN  /\ calls' = Append(calls, Call("single", -1, html, out))
              /\ outcome' = out
    /\ path' = "single"
    /\ pc' = "done"
    /\ UNCHANGED <<html_content, schema, max_length, smart_chunking, field_keywords,
                   scored_chunks, rank, best_result, best_data_count,
                   text, chunk_size, overlap, start, chunks, chunk_starts>>
    /\ UNCHANGED auxVars

\* chunked path up to the call of _create_chunks (extractor.py:103-110, 155-159)
extract_chunked_begin ==
    /\ pc = "extract"
    /\ ~use_single_path(html_content, max_length, smart_chunking)
    /\ path' = "chunked"
    /\ field_keywords' = extract_keywords_from_schema(schema)
    /\ text' = html_content
    /\ chunk_size' = max_length
    /\ overlap' = Overlap
    /\ start' = 0
    /\ chunks' = << >>
    /\ chunk_starts' = << >>
    /\ pc' = "create_chunks"
    /\ UNCHANGED <<html_content, schema, max_length, smart_chunking, scored_chunks,
                   rank, best_result, best_data_count, calls, outcome>>
    /\ UNCHANGED auxVars

\* mutant: the best result so far is kept on the engine from call to call
loop_start_carried(held_result, held_count) ==
    [best_result |-> held_result, best_data_count |-> held_count]

\* extractor.py:173-174  best_result = None; best_data_count = 0, whatever the
\* two names held
loop_start(held_result, held_count) ==
    [best_result |-> NoneValue, best_data_count |-> 0]

\* scoring, sorting and the loop's initial state (extractor.py:161-174)
score_and_sort ==
    /\ pc = "chunks_ready"
    /\ path = "chunked"
    /\ scored_chunks' =
          LET scored == score_chunks(chunks, field_keywords, 1)
          IN  sort_by_score(scored, Len(scored))
    /\ best_result' = loop_start(best_result, best_data_count).best_result
    /\ best_data_count' = loop_start(best_result, best_data_count).best_data_count
    /\ rank' = 1
    /\ pc' = "iterate"
    /\ UNCHANGED <<html_content, schema, max_length, smart_chunking, path,
                   field_keywords, text, chunk_size, overlap, start, chunks,
                   chunk_starts, calls, outcome>>
    /\ UNCHANGED auxVars

\* the for loop has no further chunk to try: the list is exhausted, or the
\* break of extractor.py:178-179
loop_over ==
    IF rank > Len(scored_chunks) THEN TRUE
    ELSE below_floor(scored_chunks[rank].score)

\* mutant: only the parser's ValueError is caught
absorbs_format_only(out) == out.error = "format"

\* mutant: an exception of the oracle invocation is let through
absorbs_parser_and_schema(out) == out.error \in {"format", "validation"}

\* extractor.py:199  except Exception
absorbs(out) == TRUE

\* extractor.py:195  if data_count > best_data_count
keep_better(data_count, best_count) == data_count > best_count

\* one pass of the loop body on the chunk at `rank` (extractor.py:176-200)
chunk_attempt ==
    /\ pc = "iterate"
    /\ ~loop_over
    /\ \E response \in Generations :
          LET cur == scored_chunks[rank]
              out == extract_single(response, schema)
          IN  /\ calls' = Append(calls, Call("rank", cur.i, cur.chunk, out))
              /\ IF out.kind = "returned"
                 THEN LET data_count == count_data_items(out.result.data)
                      IN  /\ IF keep_better(data_count, best_data_count)
                             THEN /\ best_data_count' = data_count
                                  /\ best_result' = out.result
                             ELSE UNCHANGED <<best_result, best_data_count>>
                          /\ UNCHANGED <<pc, outcome>>
                 ELSE /\ UNCHANGED <<best_result, best_data_count>>
                      /\ IF absorbs(out)
                         THEN UNCHANGED <<pc, outcome>>
                         ELSE pc' = "done" /\ outcome' = out
    /\ rank' = rank + 1
    /\ UNCHANGED <<html_content, schema, max_length, smart_chunking, path,
                   field_keywords, scored_chunks, text, chunk_size, overlap, start,
                   chunks, chunk_starts>>
    /\ UNCHANGED auxVars

\* extractor.py:203  best_result and best_data_count > 0
has_best(best, best_count) == best # NoneValue /\ best_count > 0

\* extractor.py:203-204  return best_result
return_best ==
    /\ pc = "iterate"
    /\ loop_over
    /\ has_best(best_result, best_data_count)
    /\ outcome' = Returned(best_result)
    /\ pc' = "done"
    /\ UNCHANGED <<html_content, schema, max_length, smart_chunking, path,
                   field_keywords, scored_chunks, rank, best_result, best_data_count,
                   text, chunk_size, overlap, start, chunks, chunk_starts, calls>>
    /\ UNCHANGED auxVars

\* mutant: the first chunk of the document, whatever its rank
fallback_chunk_first_in_document(scored, chs) == chs[1]

\* extractor.py:208  scored_chunks[0][2]
fallback_chunk(scored, chs) == scored[1].chunk

\* mutant: a failure of the last attempt is turned into an unfilled result
fallback_outcome_null_filled(out) ==
    IF out.kind = "raised" THEN Returned(NoneValue) ELSE out

\* extractor.py:207  return self._extract_single(...): result or error as it is
fallback_outcome(out) == out

\* extractor.py:206-213: the last attempt
fallback ==
    /\ pc = "iterate"
    /\ loop_over
    /\ ~has_best(best_result, best_data_count)
    /\ Len(scored_chunks) > 0
    /\ \E response \in Generations :
          LET html == fallback_chunk(scored_chunks, chunks)
              out  == extract_single(response, schema)
          IN  /\ calls' = Append(calls, Call("fallback", -1, html, out))
              /\ outcome' = fallback_outcome(out)
    /\ pc' = "done"
    /\ UNCHANGED <<html_content, schema, max_length, smart_chunking, path,
                   field_keywords, scored_chunks, rank, best_result, best_data_count,
                   text, chunk_size, overlap, start, chunks, chunk_starts>>
    /\ UNCHANGED auxVars

-----------------------------------------------------------------------------
(* Spec: one call of extract *)

\* a document: filler with a few schema-relevant characters at its ends
MkDoc(n, marks) == [len |-> n, at |-> marks]
MarkPositions(n) == {1, 2, n - 1, n}
MarkChars == {"A", "b"}
DocLens == {1000, 1503, 2003}
MaxLengths == {999, 1000, 1501, 2001, 2003}

Documents ==
    UNION { UNION { {MkDoc(n, m) : m \in [P -> MarkChars]} :
                    P \in {Q \in SUBSET MarkPositions(n) : Cardinality(Q) <= MaxMarks} } :
            n \in DocLens }

\* no call of the parser, the scorer, the keyword extractor or the result
\* inspectors is under way
NoJson == [kind |-> "none", value |-> NoneValue]
NoFetch == [wait_until |-> "domcontentloaded", wait_for |-> FALSE,
            execute_script |-> FALSE, screenshot |-> FALSE]
\* scrapers.py:143-144: a BrowserScraper as __init__ leaves it, not entered
BrowserIdle ==
    /\ self_playwright = FALSE
    /\ self_browser = FALSE
    /\ engine = "none"
    /\ browser = "none"
    /\ context = "none"
    /\ fetch_opts = NoFetch
    /\ raising = FALSE
    /\ session = "none"
\* extractor.py:45-59: the attributes __init__ sets
EngineSelf == [tokenizer |-> "tokenizer", model |-> "model"]
NoOutsideCall == [method |-> "none", phase |-> "none", error |-> "none", touched |-> FALSE]
\* no scrape, no stray fetch, no concurrent callers; the first extract call
LaterIdle ==
    /\ outside_call = NoOutsideCall
    /\ use_browser = FALSE
    /\ auto_fallback = FALSE
    /\ page_html = EmptyStr
    /\ scrape_log = << >>
    /\ scrape_out = NoOutcome
    /\ urls = 0
    /\ many_results = << >>
    /\ scraped = << >>
    /\ serialized = FALSE
    /\ lock_holder = 0
    /\ in_flight = << >>
    /\ generated = << >>
    /\ engine_self = EngineSelf
    /\ call_no = 1
    /\ past_outcomes = << >>
    /\ html_contents = << >>
    /\ batch_results = << >>
    /\ batch_log = << >>
    /\ batch_out = NoOutcome
AuxIdle ==
    /\ LaterIdle
    /\ BrowserIdle
    /\ llm_response = << >>
    /\ json_text = << >>
    /\ parsed = NoJson
    /\ arg_chunk = EmptyStr
    /\ arg_keywords = {}
    /\ relevance = [num |-> 0, den |-> 1]
    /\ keyword_list = << >>
    /\ extraction = NoneValue
    /\ is_empty = FALSE
    /\ item_count = 0

Init ==
    /\ AuxIdle
    /\ html_content \in Documents
    /\ schema \in Schemas
    /\ max_length \in MaxLengths
    /\ smart_chunking \in BOOLEAN
    /\ pc = "extract"
    /\ path = "none"
    /\ field_keywords = {}
    /\ scored_chunks = << >>
    /\ rank = 0
    /\ best_result = NoneValue
    /\ best_data_count = 0
    /\ text = EmptyStr
    /\ chunk_size = 0
    /\ overlap = 0
    /\ start = 0
    /\ chunks = << >>
    /\ chunk_starts = << >>
    /\ calls = << >>
    /\ outcome = NoOutcome

Next ==
    \/ extract_single_shot
    \/ extract_chunked_begin
    \/ create_chunks_step
    \/ create_chunks_return
    \/ score_and_sort
    \/ chunk_attempt
    \/ return_best
    \/ fallback

Spec == Init /\ [][Next]_vars

-----------------------------------------------------------------------------
(* SpecSplit: _create_chunks called on its own with any text, size, overlap *)

SplitTexts ==
    UNION { {[len |-> n, at |-> [p \in P |-> "a"]] : P \in SUBSET (1..n)} :
            n \in 0..MaxSplitLen }

InitSplit ==
    /\ AuxIdle
    /\ text \in SplitTexts
    /\ chunk_size \in 1..MaxSplitSize
    /\ overlap \in 0..MaxSplitSize
    /\ start = 0
    /\ chunks = << >>
    /\ chunk_starts = << >>
    /\ pc = "create_chunks"
    /\ path = "none"
    /\ html_content = EmptyStr
    /\ schema = << >>
    /\ max_length = 0
    /\ smart_chunking = FALSE
    /\ field_keywords = {}
    /\ scored_chunks = << >>
    /\ rank = 0
    /\ best_result = NoneValue
    /\ best_data_count = 0
    /\ calls = << >>
    /\ outcome = NoOutcome

NextSplit == create_chunks_step \/ create_chunks_return

SpecSplit == InitSplit /\ [][NextSplit]_vars

-----------------------------------------------------------------------------
(* SpecParse: _extract_json_from_tags called on its own with any output      *)

\* extract and _create_chunks are not running
EngineIdle ==
    /\ html_content = EmptyStr
    /\ max_length = 0
    /\ smart_chunking = FALSE
    /\ path = "none"
    /\ field_keywords = {}
    /\ scored_chunks = << >>
    /\ rank = 0
    /\ best_result = NoneValue
    /\ best_data_count = 0
    /\ text = EmptyStr
    /\ chunk_size = 0
    /\ overlap = 0
    /\ start = 0
    /\ chunks = << >>
    /\ chunk_starts = << >>
    /\ calls = << >>
    /\ outcome = NoOutcome

\* JSON values the oracle may be writing down: scalars, lists and objects of
\* scalars, an object in an object; strings hold letters, braces, blanks and
\* the closing tag marker
StrChars == {"a", "{", "}", "</json>", " "}
JsonStrings == UNION {[1..n -> StrChars] : n \in 0..MaxStrLen}
JsonScalars ==
    {JNull, JInt(0), JInt(1), JBool(TRUE)} \cup {JStr(str) : str \in JsonStrings}
JsonObjects ==
    {JObj(<< >>)}
      \cup {JObj(<<"k">> :> v) : v \in JsonScalars}
      \cup {JObj(<<"a">> :> JInt(1) @@ <<"k">> :> v) : v \in JsonScalars}
      \cup {JObj(<<"k">> :> JObj(<<"k">> :> v)) : v \in JsonScalars}
JsonValues ==
    JsonScalars \cup JsonObjects
      \cup {JList(<< >>)}
      \cup {JList(<<v>>) : v \in JsonScalars}
      \cup {JList(<<JInt(1), v>>) : v \in JsonScalars}

\* the JSON text of a value, written the way json.dumps writes it
RECURSIVE json_dumps(_)
RECURSIVE dumps_items(_, _)
RECURSIVE dumps_members(_, _)
dumps_items(items, i) ==
    IF i > Len(items) THEN << >>
    ELSE (IF i > 1 THEN <<",", " ">> ELSE << >>)
         \o json_dumps(items[i]) \o dumps_items(items, i + 1)
dumps_members(fields, names) ==
    IF names = {} THEN << >>
    ELSE LET n == CHOOSE x \in names : TRUE
         IN  <<Quote>> \o n \o <<Quote, ":", " ">> \o json_dumps(fields[n])
             \o (IF names = {n} THEN << >> ELSE <<",", " ">>)
             \o dumps_members(fields, names \ {n})
json_dumps(v) ==
    CASE v.t = "null" -> <<"null">>
      [] v.t = "bool" -> IF v.b THEN <<"true">> ELSE <<"false">>
      [] v.t = "int"  -> IF v.n = 0 THEN <<"0">> ELSE <<"1">>
      [] v.t = "str"  -> <<Quote>> \o v.s \o <<Quote>>
      [] v.t = "list" -> <<"[">> \o dumps_items(v.items, 1) \o <<"]">>
      [] v.t = "obj"  -> <<"{">> \o dumps_members(v.fields, DOMAIN v.fields) \o <<"}">>

\* the text wrapped in the tag pair the prompt asks for (extractor.py:289, 310)
Wrap(body) == <<"<json>">> \o body \o <<"</json>">>

\* other outputs: tags without a pair, braces without a span, two pairs, blanks
\* and a line of prose around the payload
OddOutputs ==
    { << >>, <<"{">>, <<"}", "{">>, <<"</json>", "<json>">>,
      <<"<json>", "{", "p_one", "}">>,
      <<"{", "p_one", "}", "</JSON>">>,
      <<"<json>", "</json>">>,
      <<"<json>", " ", "</json>", "{", "}">>,
      <<"<JSON>", " ", "{", "p_one", "}", " ", "</json>", "junk", "</json>">>,
      <<"junk", "<json>", "{", "p_one", "}", "</JSON>", "<json>", "junk", "</json>">>,
      <<"<json>", "junk", "{", "p_one", "}", "</json>", "{", "p_one", "}">>,
      <<"junk", " ", "{", "p_three", "}", " ", "junk", "}">>,
      <<"{", "p_one", "}", "junk", "{", "p_one", "}">> }

ParseInputs ==
    {Wrap(json_dumps(v)) : v \in JsonValues}
      \cup {json_dumps(v) : v \in JsonValues}
      \cup {<<"junk", " ">> \o json_dumps(v) \o <<" ", "junk">> : v \in JsonObjects}
      \cup Responses \cup OddOutputs

JsonRaised == [kind |-> "raised", value |-> NoneValue]
JsonReturned(v) == [kind |-> "returned", value |-> v]

InitParse ==
    /\ EngineIdle
    /\ LaterIdle
    /\ BrowserIdle
    /\ schema = << >>
    /\ llm_response \in ParseInputs
    /\ json_text = << >>
    /\ parsed = NoJson
    /\ arg_chunk = EmptyStr
    /\ arg_keywords = {}
    /\ relevance = [num |-> 0, den |-> 1]
    /\ keyword_list = << >>
    /\ extraction = NoneValue
    /\ is_empty = FALSE
    /\ item_count = 0
    /\ pc = "parse"

\* extractor.py:385-400: both searches; json_str is set or ValueError raised
parse_search ==
    /\ pc = "parse"
    /\ LET located == locate_json(llm_response)
       IN  IF located.found
           THEN /\ json_text' = located.json_str
                /\ pc' = "loads"
                /\ UNCHANGED parsed
           ELSE /\ parsed' = JsonRaised
                /\ pc' = "done"
                /\ UNCHANGED json_text
    /\ UNCHANGED <<llm_response, schema, engineVars, scoreVars, keyword_list, resultVars>>
    /\ UNCHANGED browserVars
    /\ UNCHANGED laterVars

\* extractor.py:403-409: json.loads(json_str), JSONDecodeError turned ValueError
parse_loads ==
    /\ pc = "loads"
    /\ LET decoded == json_loads(json_text)
       IN  parsed' = IF decoded.ok THEN JsonReturned(decoded.value) ELSE JsonRaised
    /\ pc' = "done"
    /\ UNCHANGED <<llm_response, json_text, schema, engineVars, scoreVars,
                   keyword_list, resultVars>>
    /\ UNCHANGED browserVars
    /\ UNCHANGED laterVars

NextParse == parse_search \/ parse_loads

SpecParse == InitParse /\ [][NextParse]_vars

-----------------------------------------------------------------------------
(* SpecScore: _score_chunk_relevance called on its own                       *)

\* chunks of letters in both cases and the filler; keywords of one and two
\* characters, one of them not lower-case
ScoreChunks ==
    UNION { UNION { {[len |-> n, at |-> m] : m \in [P -> {"a", "A", "b"}]} :
                    P \in SUBSET (1..n) } :
            n \in 0..MaxScoreLen }
ScoreKeywords == {<<"a">>, <<"b">>, <<"a", "b">>, <<"x">>, <<"A">>}

InitScore ==
    /\ EngineIdle
    /\ LaterIdle
    /\ BrowserIdle
    /\ schema = << >>
    /\ llm_response = << >>
    /\ json_text = << >>
    /\ parsed = NoJson
    /\ arg_chunk \in ScoreChunks
    /\ arg_keywords \in SUBSET ScoreKeywords
    /\ relevance = [num |-> 0, den |-> 1]
    /\ keyword_list = << >>
    /\ extraction = NoneValue
    /\ is_empty = FALSE
    /\ item_count = 0
    /\ pc = "score"

\* extractor.py:253-257
score_call ==
    /\ pc = "score"
    /\ relevance' = score_chunk_relevance(arg_chunk, arg_keywords)
    /\ pc' = "done"
    /\ UNCHANGED <<arg_chunk, arg_keywords, schema, engineVars, parseVars,
                   keyword_list, resultVars>>
    /\ UNCHANGED browserVars
    /\ UNCHANGED laterVars

NextScore == score_call

SpecScore == InitScore /\ [][NextScore]_vars

-----------------------------------------------------------------------------
(* SpecKeywords: _extract_keywords_from_schema called on its own             *)

\* schemas of str fields with distinct names, with and without a description
KeywordNames == {<<"A">>, <<"b">>, <<"A", "b">>}
KeywordDescriptions == {<< >>, <<"A", " ", "b">>, <<"b", "-", "C">>}
\* src/test.py:5-7  class Item: two described fields
ItemFields ==
    << [name |-> <<"N">>, description |-> <<"e", " ", "b">>, type |-> "str",
        optional |-> FALSE],
       [name |-> <<"u">>, description |-> <<"d">>, type |-> "str", optional |-> FALSE] >>
\* src/test.py:9-10  a field of type List[Item], and one of type Item
NestedFields ==
    { [name |-> <<"A">>, description |-> <<"b", "-", "C">>, type |-> "list_obj",
       optional |-> FALSE, fields |-> ItemFields],
      [name |-> <<"b">>, description |-> << >>, type |-> "obj", optional |-> FALSE,
       fields |-> ItemFields] }
KeywordFields ==
    {[name |-> n, description |-> d, type |-> "str", optional |-> FALSE] :
        n \in KeywordNames, d \in KeywordDescriptions}
    \cup NestedFields
KeywordSchemas ==
    UNION { {sch \in [1..n -> KeywordFields] :
                \A i \in 1..n : \A j \in 1..n : sch[i].name = sch[j].name => i = j} :
            n \in 0..MaxSchemaFields }

InitKeywords ==
    /\ EngineIdle
    /\ LaterIdle
    /\ BrowserIdle
    /\ schema \in KeywordSchemas
    /\ llm_response = << >>
    /\ json_text = << >>
    /\ parsed = NoJson
    /\ arg_chunk = EmptyStr
    /\ arg_keywords = {}
    /\ relevance = [num |-> 0, den |-> 1]
    /\ keyword_list = << >>
    /\ extraction = NoneValue
    /\ is_empty = FALSE
    /\ item_count = 0
    /\ pc = "keywords"

\* extractor.py:225-239
keywords_call ==
    /\ pc = "keywords"
    /\ keyword_list' \in list_of_set(keywords_list(schema_properties(schema), 1))
    /\ pc' = "done"
    /\ UNCHANGED <<schema, engineVars, parseVars, scoreVars, resultVars>>
    /\ UNCHANGED browserVars
    /\ UNCHANGED laterVars

NextKeywords == keywords_call

SpecKeywords == InitKeywords /\ [][NextKeywords]_vars

-----------------------------------------------------------------------------
(* SpecEmpty: _is_empty_extraction (core.py:336-358) called on its own.      *)
(* The model it is given is [t |-> "model", data |-> ...]; data is what      *)
(* model_dump returns, here with the fields numbered 1..n.                   *)

\* core.py:353  v is None or v == "" or v == [] or v == {}
is_none_or_empty(v) ==
    \/ v.t = "null"
    \/ v.t = "str" /\ v.s = << >>
    \/ v.t = "list" /\ v.items = << >>
    \/ v.t = "obj" /\ DOMAIN v.fields = {}

\* mutant: more than 80% is asked for
ratio_reached_strict(none_count, total) == none_count * 5 > 4 * total

\* core.py:356-357  none_count / len(values) >= 0.8
ratio_reached(none_count, total) == none_count * 5 >= 4 * total

\* core.py:346-357
is_empty_extraction(data) ==
    LET values     == [i \in 1..Cardinality(DOMAIN data) |-> data[i]]
        none_count == Cardinality({i \in 1..Len(values) : is_none_or_empty(values[i])})
    IN  IF values = << >> THEN TRUE
        ELSE ratio_reached(none_count, Len(values))

\* field values of a dumped model: null, strings, lists, mappings (a nested
\* model is dumped as a mapping), a number
EmptinessValues ==
    {JNull, JStr(<< >>), JStr(<<"v">>), JList(<< >>), JObj(<< >>),
     JObj(<<"k">> :> JNull), JInt(0)}

Model(data) == [t |-> "model", data |-> data]

InitEmpty ==
    /\ EngineIdle
    /\ LaterIdle
    /\ BrowserIdle
    /\ schema = << >>
    /\ llm_response = << >>
    /\ json_text = << >>
    /\ parsed = NoJson
    /\ arg_chunk = EmptyStr
    /\ arg_keywords = {}
    /\ relevance = [num |-> 0, den |-> 1]
    /\ keyword_list = << >>
    /\ \E n \in 0..MaxResultFields :
          \E data \in [1..n -> EmptinessValues] : extraction = Model(data)
    /\ is_empty = FALSE
    /\ item_count = 0
    /\ pc = "is_empty"

is_empty_call ==
    /\ pc = "is_empty"
    /\ is_empty' = is_empty_extraction(extraction.data)
    /\ pc' = "done"
    /\ UNCHANGED <<extraction, item_count, schema, engineVars, parseVars, scoreVars,
                   keyword_list>>
    /\ UNCHANGED browserVars
    /\ UNCHANGED laterVars

NextEmpty == is_empty_call

SpecEmpty == InitEmpty /\ [][NextEmpty]_vars

-----------------------------------------------------------------------------
(* SpecCount: _count_data_items (extractor.py:215-223) called on its own     *)

\* field values of a result: scalars of the three scalar types and lists
CountValues ==
    {JNull, JStr(<< >>), JStr(<<"v">>), JInt(0), JInt(1), JBool(FALSE), JBool(TRUE),
     JList(<< >>), JList(<<JStr(<< >>), JStr(<<"i">>)>>), JList(<<JInt(0), JInt(1)>>)}

InitCount ==
    /\ EngineIdle
    /\ LaterIdle
    /\ BrowserIdle
    /\ schema = << >>
    /\ llm_response = << >>
    /\ json_text = << >>
    /\ parsed = NoJson
    /\ arg_chunk = EmptyStr
    /\ arg_keywords = {}
    /\ relevance = [num |-> 0, den |-> 1]
    /\ keyword_list = << >>
    /\ \E n \in 0..MaxCountFields :
          \E data \in [1..n -> CountValues] : extraction = Model(data)
    /\ is_empty = FALSE
    /\ item_count = 0
    /\ pc = "count"

count_call ==
    /\ pc = "count"
    /\ item_count' = count_data_items(extraction.data)
    /\ pc' = "done"
    /\ UNCHANGED <<extraction, is_empty, schema, engineVars, parseVars, scoreVars,
                   keyword_list>>
    /\ UNCHANGED browserVars
    /\ UNCHANGED laterVars

NextCount == count_call

SpecCount == InitCount /\ [][NextCount]_vars

-----------------------------------------------------------------------------
(* SpecBrowser: Scraparoni._fetch_with_browser (core.py:147-150),            *)
(*   with BrowserScraper(...) as browser: return browser.fetch(url, **kwargs) *)
(* Every call into Playwright either returns or raises; stop() of the engine *)
(* is taken to return.  An exception raised by __enter__ leaves the with     *)
(* statement without a call of __exit__; one raised by the body goes through *)
(* __exit__, which returns None and so lets it propagate.                    *)

notBrowserVars == <<schema, engineVars, parseVars, scoreVars, keyword_list, resultVars>>

FetchOptions ==
    [wait_until : {"domcontentloaded", "networkidle"}, wait_for : BOOLEAN,
     execute_script : BOOLEAN, screenshot : BOOLEAN]

InitBrowser ==
    /\ EngineIdle
    /\ LaterIdle
    /\ schema = << >>
    /\ llm_response = << >>
    /\ json_text = << >>
    /\ parsed = NoJson
    /\ arg_chunk = EmptyStr
    /\ arg_keywords = {}
    /\ relevance = [num |-> 0, den |-> 1]
    /\ keyword_list = << >>
    /\ extraction = NoneValue
    /\ is_empty = FALSE
    /\ item_count = 0
    /\ self_playwright = FALSE
    /\ self_browser = FALSE
    /\ engine = "none"
    /\ browser = "none"
    /\ context = "none"
    /\ fetch_opts \in FetchOptions
    /\ raising = FALSE
    /\ session = "none"
    /\ pc = "enter_start"

\* scrapers.py:151  self._playwright = sync_playwright().start()
enter_start ==
    /\ pc = "enter_start"
    /\ \E ok \in BOOLEAN :
          IF ok
          THEN /\ self_playwright' = TRUE
               /\ engine' = "running"
               /\ pc' = "enter_launch"
               /\ UNCHANGED session
          ELSE /\ session' = "raised"
               /\ pc' = "done"
               /\ UNCHANGED <<self_playwright, engine>>
    /\ UNCHANGED <<self_browser, browser, context, fetch_opts, raising>>
    /\ UNCHANGED notBrowserVars
    /\ UNCHANGED laterVars

\* scrapers.py:152-159  self._browser = browser_launcher.launch(...); return self
enter_launch ==
    /\ pc = "enter_launch"
    /\ \E ok \in BOOLEAN :
          IF ok
          THEN /\ self_browser' = TRUE
               /\ browser' = "open"
               /\ pc' = "fetch"
               /\ UNCHANGED session
          ELSE /\ session' = "raised"
               /\ pc' = "done"
               /\ UNCHANGED <<self_browser, browser>>
    /\ UNCHANGED <<self_playwright, engine, context, fetch_opts, raising>>
    /\ UNCHANGED notBrowserVars
    /\ UNCHANGED laterVars

\* scrapers.py:254-255: an exception inside fetch's try is raised again and
\* leaves the with body
fetch_raises ==
    /\ raising' = TRUE
    /\ pc' = "exit"

\* scrapers.py:197-210  the check of self._browser, then new_context(...)
fetch_new_context ==
    /\ pc = "fetch"
    /\ IF ~self_browser
       THEN fetch_raises /\ UNCHANGED context
       ELSE \E ok \in BOOLEAN :
               IF ok
               THEN context' = "open" /\ pc' = "new_page" /\ UNCHANGED raising
               ELSE fetch_raises /\ UNCHANGED context
    /\ UNCHANGED <<self_playwright, self_browser, engine, browser, fetch_opts, session>>
    /\ UNCHANGED notBrowserVars
    /\ UNCHANGED laterVars

\* scrapers.py:212  page = context.new_page()
fetch_new_page ==
    /\ pc = "new_page"
    /\ \E ok \in BOOLEAN :
          IF ok THEN pc' = "goto" /\ UNCHANGED raising ELSE fetch_raises
    /\ UNCHANGED <<self_playwright, self_browser, engine, browser, context, fetch_opts,
                   session>>
    /\ UNCHANGED notBrowserVars
    /\ UNCHANGED laterVars

\* scrapers.py:214-231  page.goto; on failure a second goto when wait_until was
\* "networkidle"
fetch_goto ==
    /\ pc = "goto"
    /\ \E ok \in BOOLEAN :
          IF ok THEN pc' = "wait" /\ UNCHANGED raising
          ELSE IF fetch_opts.wait_until = "networkidle"
               THEN pc' = "goto_retry" /\ UNCHANGED raising
               ELSE fetch_raises
    /\ UNCHANGED <<self_playwright, self_browser, engine, browser, context, fetch_opts,
                   session>>
    /\ UNCHANGED notBrowserVars
    /\ UNCHANGED laterVars

\* scrapers.py:226-229  the second goto
fetch_goto_retry ==
    /\ pc = "goto_retry"
    /\ \E ok \in BOOLEAN :
          IF ok THEN pc' = "wait" /\ UNCHANGED raising ELSE fetch_raises
    /\ UNCHANGED <<self_playwright, self_browser, engine, browser, context, fetch_opts,
                   session>>
    /\ UNCHANGED notBrowserVars
    /\ UNCHANGED laterVars

\* scrapers.py:233-249  wait_for_selector or wait_for_timeout, then evaluate and
\* screenshot when asked for, then page.content()
fetch_page_work ==
    /\ pc = "wait"
    /\ \E waited \in BOOLEAN, evaluated \in BOOLEAN, shot \in BOOLEAN, read \in BOOLEAN :
          IF /\ waited
             /\ fetch_opts.execute_script => evaluated
             /\ fetch_opts.screenshot => shot
             /\ read
          THEN pc' = "context_close" /\ UNCHANGED raising
          ELSE fetch_raises
    /\ UNCHANGED <<self_playwright, self_browser, engine, browser, context, fetch_opts,
                   session>>
    /\ UNCHANGED notBrowserVars
    /\ UNCHANGED laterVars

\* scrapers.py:250-252  context.close(); return content
fetch_context_close ==
    /\ pc = "context_close"
    /\ \E ok \in BOOLEAN :
          IF ok
          THEN context' = "closed" /\ pc' = "exit" /\ UNCHANGED raising
          ELSE fetch_raises /\ UNCHANGED context
    /\ UNCHANGED <<self_playwright, self_browser, engine, browser, fetch_opts, session>>
    /\ UNCHANGED notBrowserVars
    /\ UNCHANGED laterVars

\* scrapers.py:165-166  if self._playwright: self._playwright.stop()
exit_stop_engine(started, eng) == IF started THEN "stopped" ELSE eng

\* scrapers.py:161-166  __exit__: close the browser, which closes its contexts,
\* then stop the engine; an exception of close() leaves __exit__ at once
exit_session ==
    /\ pc = "exit"
    /\ \E ok \in BOOLEAN :
          IF ~self_browser \/ ok
          THEN /\ browser' = IF self_browser THEN "closed" ELSE browser
               /\ context' = IF self_browser /\ context = "open" THEN "closed"
                             ELSE context
               /\ engine' = exit_stop_engine(self_playwright, engine)
               /\ session' = IF raising THEN "raised" ELSE "returned"
          ELSE /\ session' = "raised"
               /\ UNCHANGED <<browser, context, engine>>
    /\ pc' = "done"
    /\ UNCHANGED <<self_playwright, self_browser, fetch_opts, raising>>
    /\ UNCHANGED notBrowserVars
    /\ UNCHANGED laterVars

NextBrowser ==
    \/ enter_start
    \/ enter_launch
    \/ fetch_new_context
    \/ fetch_new_page
    \/ fetch_goto
    \/ fetch_goto_retry
    \/ fetch_page_work
    \/ fetch_context_close
    \/ exit_session

SpecBrowser == InitBrowser /\ [][NextBrowser]_vars

-----------------------------------------------------------------------------
(* SpecBrowserUse: the session of SpecBrowser, and one call of fetch or of   *)
(* fetch_with_interaction made on the same BrowserScraper outside the with   *)
(* statement: before __enter__ or after the statement has been left.         *)

FetchMethods == {"fetch", "fetch_with_interaction"}
OutsideCall(method, phase, error, touched) ==
    [method |-> method, phase |-> phase, error |-> error, touched |-> touched]

\* scrapers.py:197, 279  if not self._browser
fetch_refused(has_browser, has_playwright) == ~has_browser

\* scrapers.py:197-255, 279-315: the check of self._browser; past it,
\* self._browser.new_context(...) is called on whatever browser the handle
\* names: a closed browser raises, which the except clause wraps in Exception
fetch_outside ==
    /\ pc \in {"enter_start", "done"}
    /\ outside_call.method = "none"
    /\ \E method \in FetchMethods :
          LET phase == IF pc = "enter_start" THEN "before" ELSE "after"
          IN  IF fetch_refused(self_browser, self_playwright)
              THEN /\ outside_call' = OutsideCall(method, phase, "RuntimeError", FALSE)
                   /\ UNCHANGED context
              ELSE \E ok \in BOOLEAN :
                      IF ok /\ browser = "open"
                      THEN /\ outside_call' = OutsideCall(method, phase, "none", TRUE)
                           /\ context' = "closed"
                      ELSE /\ outside_call' = OutsideCall(method, phase, "Exception", TRUE)
                           /\ \E leaked \in BOOLEAN :
                                 context' = IF leaked /\ browser = "open"
                                            THEN "open" ELSE context
    /\ UNCHANGED <<self_playwright, self_browser, engine, browser, fetch_opts, raising,
                   session, pc>>
    /\ UNCHANGED notBrowserVars
    /\ UNCHANGED <<scrapeVars, concVars, callVars>>

NextBrowserUse == NextBrowser \/ fetch_outside

SpecBrowserUse == InitBrowser /\ [][NextBrowserUse]_vars

-----------------------------------------------------------------------------
(* SpecScrape: one call of Scraparoni.scrape (core.py:86-145). save_html is  *)
(* left at its default None. A fetch and an extraction are each one step     *)
(* whose outcome, an exception or a value, is chosen among those the callee  *)
(* can produce; scrape_log records them in the order they were made.         *)

\* core.py:118  the length below which a page is taken for a shell
MinHtmlLen == 500
BodyTag == <<"<", "b", "o", "d", "y">>
TagAt(chars) == [p \in 1..Len(chars) |-> chars[p]]
\* pages a fetch returns: just under and at the length limit, without a body
\* tag, with one, with one in capitals
Pages ==
    {MkDoc(n, m) : n \in {MinHtmlLen - 1, MinHtmlLen},
                   m \in {<< >>, TagAt(BodyTag), TagAt(<<"<", "B", "O", "D", "Y">>)}}

FetchFailed == [ok |-> FALSE, page |-> EmptyStr]
Fetched(page) == [ok |-> TRUE, page |-> page]
\* what phantom.fetch (scrapers.py:66-114) and _fetch_with_browser
\* (core.py:147-150) end with: an exception or a page
Fetches == {FetchFailed} \cup {Fetched(page) : page \in Pages}

\* results weaver.extract returns: without fields, all fields empty, with data
ScrapeResults == {Model(<< >>), Model(<<JNull>>), Model(<<JStr(<<"v">>)>>)}
\* what weaver.extract ends with: an exception or a validated model
Extractions == {Raised("extract")} \cup {Returned(r) : r \in ScrapeResults}

\* core.py:118  len(html) < 500 or '<body' not in html.lower()
looks_empty(page) == StrLen(page) < MinHtmlLen \/ ~Contains(LowerText(page), BodyTag)

\* mutant: the retry after an empty result is made without asking for auto_fallback
should_refetch_always(auto, forced, result) == ~forced /\ is_empty_extraction(result.data)

\* core.py:136  auto_fallback and not use_browser and self._is_empty_extraction(result)
should_refetch(auto, forced, result) ==
    auto /\ ~forced /\ is_empty_extraction(result.data)

FetchEvent(op, site, f) ==
    [op |-> op, site |-> site, ok |-> f.ok, page |-> f.page, result |-> NoneValue]
ExtractEvent(site, out) ==
    [op |-> "extract", site |-> site, ok |-> out.kind = "returned", page |-> EmptyStr,
     result |-> out.result]

\* an exception leaves scrape
scrape_raises(e) ==
    /\ scrape_out' = Raised(e)
    /\ pc' = "scrape_done"

scrapeFrame == <<schema, engineVars, parseVars, scoreVars, keyword_list, resultVars,
                 browserVars, outside_call, concVars, callVars>>

\* core.py:112-113  if use_browser: html = self._fetch_with_browser(url, **kwargs)
scrape_fetch_forced ==
    /\ pc = "scrape"
    /\ use_browser
    /\ \E f \in Fetches :
          /\ scrape_log' = Append(scrape_log, FetchEvent("browser", "forced", f))
          /\ IF f.ok
             THEN page_html' = f.page /\ pc' = "scrape_extract" /\ UNCHANGED scrape_out
             ELSE scrape_raises("browser") /\ UNCHANGED page_html
    /\ UNCHANGED <<use_browser, auto_fallback, urls, many_results, scraped>>
    /\ UNCHANGED scrapeFrame

\* mutant: the except clause is kept when auto_fallback is off
http_failure_absorbed_always(auto) == TRUE

\* core.py:114-116, 121-124: the try statement is entered under auto_fallback only
http_failure_absorbed(auto) == auto

\* core.py:114-118, 123-124  html = self.phantom.fetch(url, **kwargs)
scrape_fetch_http ==
    /\ pc = "scrape"
    /\ ~use_browser
    /\ \E f \in Fetches :
          /\ scrape_log' = Append(scrape_log, FetchEvent("http", "http", f))
          /\ IF f.ok
             THEN /\ page_html' = f.page
                  /\ pc' = IF auto_fallback /\ looks_empty(f.page)
                           THEN "scrape_shell" ELSE "scrape_extract"
                  /\ UNCHANGED scrape_out
             ELSE IF http_failure_absorbed(auto_fallback)
                  THEN pc' = "scrape_except" /\ UNCHANGED <<page_html, scrape_out>>
                  ELSE scrape_raises("http") /\ UNCHANGED page_html
    /\ UNCHANGED <<use_browser, auto_fallback, urls, many_results, scraped>>
    /\ UNCHANGED scrapeFrame

\* core.py:120-121  the browser fetch made inside the try statement: the except
\* clause of line 121 receives its exception too
scrape_fetch_shell ==
    /\ pc = "scrape_shell"
    /\ \E f \in Fetches :
          /\ scrape_log' = Append(scrape_log, FetchEvent("browser", "shell", f))
          /\ IF f.ok
             THEN page_html' = f.page /\ pc' = "scrape_extract"
             ELSE pc' = "scrape_except" /\ UNCHANGED page_html
    /\ UNCHANGED <<use_browser, auto_fallback, scrape_out, urls, many_results, scraped>>
    /\ UNCHANGED scrapeFrame

\* core.py:121-122  except Exception: html = self._fetch_with_browser(url, **kwargs)
scrape_fetch_except ==
    /\ pc = "scrape_except"
    /\ \E f \in Fetches :
          /\ scrape_log' = Append(scrape_log, FetchEvent("browser", "except", f))
          /\ IF f.ok
             THEN page_html' = f.page /\ pc' = "scrape_extract" /\ UNCHANGED scrape_out
             ELSE scrape_raises("browser") /\ UNCHANGED page_html
    /\ UNCHANGED <<use_browser, auto_fallback, urls, many_results, scraped>>
    /\ UNCHANGED scrapeFrame

\* core.py:133-136, 145  result = self.weaver.extract(html, schema, instructions),
\* the test of line 136, and the return of line 145 when the test fails
scrape_extract_first ==
    /\ pc = "scrape_extract"
    /\ \E out \in Extractions :
          /\ scrape_log' = Append(scrape_log, ExtractEvent("first", out))
          /\ IF out.kind = "raised"
             THEN scrape_raises("extract")
             ELSE IF should_refetch(auto_fallback, use_browser, out.result)
                  THEN pc' = "scrape_refetch" /\ UNCHANGED scrape_out
                  ELSE scrape_out' = out /\ pc' = "scrape_done"
    /\ UNCHANGED <<use_browser, auto_fallback, page_html, urls, many_results, scraped>>
    /\ UNCHANGED scrapeFrame

\* core.py:138  html = self._fetch_with_browser(url, **kwargs)
scrape_refetch ==
    /\ pc = "scrape_refetch"
    /\ \E f \in Fetches :
          /\ scrape_log' = Append(scrape_log, FetchEvent("browser", "refetch", f))
          /\ IF f.ok
             THEN page_html' = f.page /\ pc' = "scrape_extract_again"
                  /\ UNCHANGED scrape_out
             ELSE scrape_raises("browser") /\ UNCHANGED page_html
    /\ UNCHANGED <<use_browser, auto_fallback, urls, many_results, scraped>>
    /\ UNCHANGED scrapeFrame

\* core.py:143-145  result = self.weaver.extract(...); return ScraparoniResponse(result)
scrape_extract_second ==
    /\ pc = "scrape_extract_again"
    /\ \E out \in Extractions :
          /\ scrape_log' = Append(scrape_log, ExtractEvent("second", out))
          /\ IF out.kind = "raised"
             THEN scrape_raises("extract")
             ELSE scrape_out' = out /\ pc' = "scrape_done"
    /\ UNCHANGED <<use_browser, auto_fallback, page_html, urls, many_results, scraped>>
    /\ UNCHANGED scrapeFrame

\* the helpers of the extraction engine at rest
HelpersIdleButSchema ==
    /\ llm_response = << >>
    /\ json_text = << >>
    /\ parsed = NoJson
    /\ arg_chunk = EmptyStr
    /\ arg_keywords = {}
    /\ relevance = [num |-> 0, den |-> 1]
    /\ keyword_list = << >>
    /\ extraction = NoneValue
    /\ is_empty = FALSE
    /\ item_count = 0
HelpersIdle == schema = << >> /\ HelpersIdleButSchema

\* core.py:86-95: the arguments of a call
InitScrape ==
    /\ EngineIdle
    /\ HelpersIdle
    /\ BrowserIdle
    /\ outside_call = NoOutsideCall
    /\ use_browser \in BOOLEAN
    /\ auto_fallback \in BOOLEAN
    /\ page_html = EmptyStr
    /\ scrape_log = << >>
    /\ scrape_out = NoOutcome
    /\ urls = 0
    /\ many_results = << >>
    /\ scraped = << >>
    /\ serialized = FALSE
    /\ lock_holder = 0
    /\ in_flight = << >>
    /\ generated = << >>
    /\ engine_self = EngineSelf
    /\ call_no = 1
    /\ past_outcomes = << >>
    /\ html_contents = << >>
    /\ batch_results = << >>
    /\ batch_log = << >>
    /\ batch_out = NoOutcome
    /\ pc = "scrape"

ScrapeSteps ==
    \/ scrape_fetch_forced
    \/ scrape_fetch_http
    \/ scrape_fetch_shell
    \/ scrape_fetch_except
    \/ scrape_extract_first
    \/ scrape_refetch
    \/ scrape_extract_second

NextScrape == ScrapeSteps

SpecScrape == InitScrape /\ [][NextScrape]_vars

-----------------------------------------------------------------------------
(* Properties of extract, checked under Spec *)

Done == pc = "done"
CallsOf(phase) == {k \in 1..Len(calls) : calls[k].phase = phase}
LastCall == calls[Len(calls)]

\* the scored entry of the chunk with 0-based index i, and score >= 0.4 for it
EntryOf(i) == scored_chunks[CHOOSE j \in 1..Len(scored_chunks) : scored_chunks[j].i = i]
AtOrAboveFloor(score) == score.num * 10 >= 4 * score.den
SameScore(a, b) == a.num * b.den = b.num * a.den
Attempted(i) == \E k \in CallsOf("rank") : calls[k].i = i

\* DataDensity as section 3 of the specification defines it: a scalar counts 1
\* unless it is null or the empty string, a list counts its non-empty elements
NonEmpty(v) ==
    /\ v.t # "null"
    /\ ~(v.t = "str" /\ v.s = << >>)
    /\ ~(v.t = "list" /\ v.items = << >>)
DensityOfValue(v) ==
    IF v.t = "list" THEN Cardinality({j \in 1..Len(v.items) : NonEmpty(v.items[j])})
    ELSE IF NonEmpty(v) THEN 1 ELSE 0
RECURSIVE DensityOver(_, _)
DensityOver(data, keys) ==
    IF keys = {} THEN 0
    ELSE LET k == CHOOSE x \in keys : TRUE
         IN  DensityOfValue(data[k]) + DensityOver(data, keys \ {k})
DataDensity(result) == DensityOver(result.data, DOMAIN result.data)

\* the successful attempts of the ranked iteration that found data
Density(k) == DataDensity(calls[k].out.result)
Found == {k \in CallsOf("rank") : calls[k].out.kind = "returned" /\ Density(k) > 0}

\* the same with the count the engine itself keeps (_count_data_items)
Counted(k) == count_data_items(calls[k].out.result.data)
FoundByCount ==
    {k \in CallsOf("rank") : calls[k].out.kind = "returned" /\ Counted(k) > 0}

\* the condition of the single-shot path, from the arguments of extract
SmallOrPlain == html_content.len <= max_length \/ ~smart_chunking

\* C1: extract takes the single-shot path exactly when len(document) <=
\* maxChunkChars or smartChunking is disabled, the chunked path in every other
\* case, and exactly one of the two once it has decided; the oracle is invoked
\* as a single shot only on the first path and chunks are cut only on the second.
C1_PathDecision ==
    /\ path \in {"none", "single", "chunked"}
    /\ (path = "none") <=> (pc = "extract")
    /\ (path = "single") <=> (pc # "extract" /\ SmallOrPlain)
    /\ (path = "chunked") <=> (pc # "extract" /\ ~SmallOrPlain)
    /\ CallsOf("single") # {} => SmallOrPlain
    /\ (chunks # << >> \/ CallsOf("rank") # {} \/ CallsOf("fallback") # {})
          => ~SmallOrPlain

\* a document of exactly max_length characters went down the single-shot path
\* with smart chunking on
C1_Witness ==
    /\ Done /\ path = "single" /\ smart_chunking
    /\ html_content.len = max_length

\* C2: on the single-shot path the oracle is invoked exactly once, on the first
\* maxChunkChars characters of the document, and what that one attempt gave,
\* result or format/validation error, is what extract gives: no second call.
C2_SingleShotOnce ==
    path = "single" =>
        /\ Done
        /\ Len(calls) = 1
        /\ calls[1].phase = "single"
        /\ calls[1].html.len = Min(html_content.len, max_length)
        /\ DOMAIN calls[1].html.at = {p \in DOMAIN html_content.at : p <= max_length}
        /\ \A p \in DOMAIN calls[1].html.at : calls[1].html.at[p] = html_content.at[p]
        /\ outcome = calls[1].out
        /\ outcome.kind \in {"returned", "raised"}

\* a document longer than max_length was truncated (one of its characters was
\* cut off) and the one attempt failed: extract raised
C2_Witness ==
    /\ Done /\ path = "single"
    /\ html_content.len > max_length
    /\ \E p \in DOMAIN html_content.at : p > max_length
    /\ outcome.kind = "raised"
    /\ Len(calls) = 1

C4_ChunkErrorAbsorbed ==
    /\ [][ ( /\ Len(calls') = Len(calls) + 1
             /\ calls'[Len(calls')].phase = "rank"
             /\ calls'[Len(calls')].out.kind = "raised" )
           => ( /\ pc' = "iterate"
                /\ outcome' = NoOutcome
                /\ best_result' = best_result
                /\ best_data_count' = best_data_count
                /\ rank' = rank + 1 ) ]_vars
    /\ [](Done /\ path = "chunked" =>
            \A j \in 2..Len(scored_chunks) :
               ( /\ \E k \in CallsOf("rank") :
                       calls[k].i = scored_chunks[j - 1].i /\ calls[k].out.kind = "raised"
                 /\ AtOrAboveFloor(scored_chunks[j].score) )
               => Attempted(scored_chunks[j].i))

\* a validation error and a format error came after a success; the chunk after
\* them was attempted and extract returned the earlier result
C4_Witness ==
    /\ Done /\ path = "chunked"
    /\ Cardinality(CallsOf("rank")) >= 4
    /\ calls[1].out.kind = "returned"
    /\ calls[2].out.error = "validation"
    /\ calls[3].out.error = "format"
    /\ outcome = Returned(calls[1].out.result)

\* C5: on the chunked path, when at least one attempt of the ranked iteration
\* validated with DataDensity > 0, extract returns the result of the first
\* attempt among those of maximum DataDensity, and makes no fallback attempt.
C5_BestOfRanked ==
    (Done /\ path = "chunked" /\ Found # {}) =>
        LET top   == {k \in Found : \A m \in Found : Density(m) <= Density(k)}
            first == CHOOSE k \in top : \A m \in top : k <= m
        IN  /\ outcome = Returned(calls[first].out.result)
            /\ CallsOf("fallback") = {}

\* The selection itself, measured with the engine's own count: when an attempt
\* of the ranked iteration validated with a count > 0, extract returns the result
\* of the first attempt among those of maximum count, and makes no fallback
\* attempt.  (Not C5: the count is not DataDensity for the integer 0.)
BestOfRanked_ByCount ==
    (Done /\ path = "chunked" /\ FoundByCount # {}) =>
        LET top   == {k \in FoundByCount : \A m \in FoundByCount : Counted(m) <= Counted(k)}
            first == CHOOSE k \in top : \A m \in top : k <= m
        IN  /\ outcome = Returned(calls[first].out.result)
            /\ CallsOf("fallback") = {}

\* C6: on the chunked path, when no attempt of the ranked iteration gave a
\* result with DataDensity > 0, exactly one more attempt is made, after all
\* the others, on a chunk of maximum score whatever that score is, and its
\* result or error is the outcome of extract.
C6_FallbackOnTop ==
    (Done /\ path = "chunked" /\ Found = {}) =>
        /\ CallsOf("fallback") = {Len(calls)}
        /\ \E j \in 1..Len(scored_chunks) :
              /\ \A m \in 1..Len(scored_chunks) :
                    ~ScoreLess(scored_chunks[j].score, scored_chunks[m].score)
              /\ LastCall.html = chunks[scored_chunks[j].i + 1]
        /\ outcome = LastCall.out

\* every ranked attempt failed or found nothing, the chunk of maximum score is
\* not the first of the document, and the last attempt's error was raised
C6_Witness ==
    /\ Done /\ path = "chunked" /\ Found = {}
    /\ Cardinality(CallsOf("rank")) >= 2
    /\ \E k \in CallsOf("rank") : calls[k].out.kind = "returned"
    /\ \E k \in CallsOf("rank") : calls[k].out.kind = "raised"
    /\ scored_chunks[1].i # 0
    /\ LastCall.html # chunks[1]
    /\ outcome = Raised("validation")

\* C7: when every oracle output of a chunked extract fails format parsing,
\* extract ends with the format error of the fallback attempt; and whenever
\* extract returns, the value is the validated result of one oracle output.
C7_NoResultWithoutParse ==
    /\ (Done /\ path = "chunked" /\ \A k \in 1..Len(calls) : calls[k].out.error = "format")
          => /\ outcome = Raised("format")
             /\ LastCall.phase = "fallback"
    /\ outcome.kind = "returned" =>
          /\ outcome.result # NoneValue
          /\ \E k \in 1..Len(calls) : calls[k].out = Returned(outcome.result)

\* three outputs in a row could not be parsed and extract raised
C7_Witness ==
    /\ Done /\ path = "chunked"
    /\ Len(calls) >= 3
    /\ \A k \in 1..Len(calls) : calls[k].out.error = "format"
    /\ outcome = Raised("format")

\* C8: the ranked iteration attempts chunks in descending order of score, and
\* chunks of equal score in ascending chunk index; each chunk at most once.
C8_RankOrder ==
    \A k \in CallsOf("rank") : \A m \in CallsOf("rank") :
        k < m =>
            LET a == EntryOf(calls[k].i).score
                b == EntryOf(calls[m].i).score
            IN  \/ ScoreLess(b, a)
                \/ SameScore(a, b) /\ calls[k].i < calls[m].i

\* a later chunk was attempted before an earlier one of lower score, and two
\* chunks of equal score were attempted in document order
C8_Witness ==
    /\ Done /\ path = "chunked"
    /\ \E k \in CallsOf("rank") : \E m \in CallsOf("rank") :
          k < m /\ calls[k].i > calls[m].i
    /\ \E k \in CallsOf("rank") : \E m \in CallsOf("rank") :
          /\ k < m
          /\ SameScore(EntryOf(calls[k].i).score, EntryOf(calls[m].i).score)

\* C9: _create_chunks called with overlap >= chunk_size fails fast: it never
\* appends a chunk (and so cannot iterate without advancing).
C9_FailFast ==
    (pc \in {"create_chunks", "chunks_ready"} /\ overlap >= chunk_size)
        => chunks = << >>

\* What the loop does instead on a non-empty text with overlap >= chunk_size:
\* start never passes 0, the loop condition stays true and the call never returns.
CreateChunksNeverExits ==
    (pc \in {"create_chunks", "chunks_ready"} /\ overlap >= chunk_size /\ text.len > 0)
        => (pc = "create_chunks" /\ start <= 0 /\ start < text.len)

-----------------------------------------------------------------------------
(* Properties of _create_chunks, checked under SpecSplit *)

\* C10: for size z > 0 and overlap 0 <= o < z the loop ends with finitely many
\* chunks (at most one per character); each chunk is the window of the
\* document at its start; the first starts at offset 0 and each later one z - o
\* after the one before; the windows cover every position of the document; the
\* last chunk has length <= z.
C10_SplitCovers ==
    (chunk_size > 0 /\ 0 <= overlap /\ overlap < chunk_size) =>
        /\ Len(chunks) <= text.len
        /\ (pc = "create_chunks" /\ start < text.len) => Len(chunks) < MaxChunks
        /\ \A k \in 1..Len(chunks) :
              /\ chunks[k].len = Min(chunk_size, text.len - chunk_starts[k])
              /\ \A p \in 1..chunks[k].len :
                    CharAt(chunks[k], p) = CharAt(text, chunk_starts[k] + p)
              /\ DOMAIN chunks[k].at \subseteq 1..chunks[k].len
        /\ Len(chunks) > 0 => chunk_starts[1] = 0
        /\ \A k \in 2..Len(chunks) :
              chunk_starts[k] = chunk_starts[k - 1] + (chunk_size - overlap)
        /\ pc = "chunks_ready" =>
              /\ \A q \in 1..text.len :
                    \E k \in 1..Len(chunks) :
                        chunk_starts[k] < q /\ q <= chunk_starts[k] + chunks[k].len
              /\ Len(chunks) > 0 => chunks[Len(chunks)].len <= chunk_size

\* three overlapping windows or more, the last one shorter than the size
C10_Witness ==
    /\ pc = "chunks_ready"
    /\ 0 < overlap /\ overlap < chunk_size
    /\ Len(chunks) >= 3
    /\ chunks[Len(chunks)].len < chunk_size
    /\ DOMAIN text.at # {}

\* C11: for 0 <= overlap < size, every chunk _create_chunks returns except the
\* last one has length exactly size; only the last chunk may be shorter.
C11_OnlyLastShorter ==
    (pc = "chunks_ready" /\ 0 <= overlap /\ overlap < chunk_size) =>
        \A k \in 1..(Len(chunks) - 1) : chunks[k].len = chunk_size

\* What the loop gives instead: a chunk is shorter than size exactly when its
\* window runs past the end of the text, and with overlap > 0 that can be so
\* for several chunks at the end, each a suffix of the one before.
ShortChunksAreTail ==
    (pc = "chunks_ready" /\ 0 <= overlap /\ overlap < chunk_size) =>
        \A k \in 1..Len(chunks) :
            /\ chunks[k].len < chunk_size <=> chunk_starts[k] + chunk_size > text.len
            /\ chunks[k].len < chunk_size =>
                  \A m \in k..Len(chunks) : chunks[m].len < chunk_size

-----------------------------------------------------------------------------
(* Properties of _extract_json_from_tags, checked under SpecParse *)

\* the output has a tag pair: an opening marker with a closing marker after it
HasTagPair(txt) ==
    \E i \in 1..Len(txt) : \E j \in (i + 1)..Len(txt) :
        txt[i] \in {"<json>", "<JSON>"} /\ txt[j] \in {"</json>", "</JSON>"}
\* the output has a '{' followed later by a '}'
HasBraceSpan(txt) ==
    \E i \in 1..Len(txt) : \E j \in (i + 1)..Len(txt) : txt[i] = "{" /\ txt[j] = "}"
\* t is s without the blanks at its two ends
IsTrimOf(t, s) ==
    /\ t # << >> => (t[1] # " " /\ t[Len(t)] # " ")
    /\ Len(t) <= Len(s)
    /\ \E a \in 0..(Len(s) - Len(t)) :
          /\ SubSeq(s, a + 1, a + Len(t)) = t
          /\ \A q \in 1..Len(s) : (q <= a \/ q > a + Len(t)) => s[q] = " "
\* a text that is no JSON whatever stands around it: nothing, or prose outside
\* of any string
NotJsonText(t) ==
    \/ t = << >>
    \/ /\ \E q \in 1..Len(t) : t[q] = "junk"
       /\ \A q \in 1..Len(t) : t[q] # Quote
ParseDone == pc = "done" /\ llm_response # << >>

\* C12: for every JSON value V, also one with a string that holds the closing
\* tag marker or braces, the parser applied to json(V) wrapped in the tag pair
\* returns V.
C12_RoundTrip ==
    \A v \in JsonValues :
        (pc = "done" /\ llm_response = Wrap(json_dumps(v))) => parsed = JsonReturned(v)

\* The round trip the parser does give: for every value whose JSON text holds
\* no closing tag marker.
RoundTrip_NoClosingTag ==
    \A v \in JsonValues :
        ( /\ pc = "done"
          /\ llm_response = Wrap(json_dumps(v))
          /\ \A q \in 1..Len(json_dumps(v)) : json_dumps(v)[q] \notin {"</json>", "</JSON>"} )
        => parsed = JsonReturned(v)

\* C13: on an output with neither a tag pair nor a '{' followed later by a '}'
\* the parser ends with its format error and returns no value; it never gets
\* as far as decoding a candidate.
C13_NoCandidateFails ==
    (~HasTagPair(llm_response) /\ ~HasBraceSpan(llm_response)) =>
        /\ pc \in {"parse", "done"}
        /\ parsed.kind # "returned"
        /\ pc = "done" => parsed = JsonRaised
        /\ json_text = << >>

\* the output was the JSON text of a list or a scalar, with no tags and no
\* brace span around it, and the parser raised
C13_Witness ==
    /\ ParseDone
    /\ ~HasTagPair(llm_response) /\ ~HasBraceSpan(llm_response)
    /\ \E v \in JsonValues : v.t \in {"list", "int"} /\ llm_response = json_dumps(v)
    /\ parsed = JsonRaised

C15_TagInteriorOnly ==
    (pc \in {"loads", "done"} /\ HasTagPair(llm_response)) =>
        LET i == CHOOSE a \in 1..Len(llm_response) :
                    /\ llm_response[a] \in {"<json>", "<JSON>"}
                    /\ \E b \in (a + 1)..Len(llm_response) :
                          llm_response[b] \in {"</json>", "</JSON>"}
                    /\ \A c \in 1..(a - 1) :
                          ~( /\ llm_response[c] \in {"<json>", "<JSON>"}
                             /\ \E b \in (c + 1)..Len(llm_response) :
                                   llm_response[b] \in {"</json>", "</JSON>"} )
            j == CHOOSE b \in (i + 1)..Len(llm_response) :
                    /\ llm_response[b] \in {"</json>", "</JSON>"}
                    /\ \A c \in (i + 1)..(b - 1) :
                          llm_response[c] \notin {"</json>", "</JSON>"}
        IN  /\ IsTrimOf(json_text, SubSeq(llm_response, i + 1, j - 1))
            /\ (pc = "done" /\ NotJsonText(json_text)) => parsed = JsonRaised

\* the interior of the tag pair was prose, a JSON object stood after the pair,
\* and the parser raised
C15_Witness ==
    /\ ParseDone
    /\ HasTagPair(llm_response)
    /\ NotJsonText(json_text)
    /\ \E a \in 1..Len(llm_response) :
          /\ llm_response[a] \in {"</json>", "</JSON>"}
          /\ json_loads(SubSeq(llm_response, a + 1, Len(llm_response))).ok
    /\ parsed = JsonRaised

-----------------------------------------------------------------------------
(* Properties of _score_chunk_relevance, checked under SpecScore *)

\* keyword k occurs in the lower-cased chunk c: at some offset every character
\* of k equals the lower-cased character of c there
OccursIn(k, c) ==
    \E off \in 0..(c.len - Len(k)) :
        \A i \in 1..Len(k) :
            LowerChar(IF off + i \in DOMAIN c.at THEN c.at[off + i] ELSE "x") = k[i]
Hits(c, K) == Cardinality({k \in K : OccursIn(k, c)})

\* C16: the score of a chunk against a keyword set K is the number of members
\* of K that occur as a substring of the lower-cased chunk divided by |K|; it
\* lies in [0, 1]; it is 0 when K is empty.
C16_ScoreIsHitRatio ==
    pc = "done" =>
        /\ relevance.den > 0
        /\ 0 <= relevance.num /\ relevance.num <= relevance.den
        /\ arg_keywords = {} => relevance.num = 0
        /\ arg_keywords # {} =>
              relevance.num * Cardinality(arg_keywords)
                 = Hits(arg_chunk, arg_keywords) * relevance.den

\* a score strictly between 0 and 1: a keyword was found only in the other
\* case, a two-character keyword was found inside the chunk, one was not found
C16_Witness ==
    /\ pc = "done"
    /\ 0 < relevance.num /\ relevance.num < relevance.den
    /\ <<"a">> \in arg_keywords /\ <<"a", "b">> \in arg_keywords
    /\ OccursIn(<<"a", "b">>, arg_chunk)
    /\ \A q \in DOMAIN arg_chunk.at : arg_chunk.at[q] # "a"
    /\ \E k \in arg_keywords : ~OccursIn(k, arg_chunk)

-----------------------------------------------------------------------------
(* Properties of _extract_keywords_from_schema, checked under SpecKeywords *)

\* C17: the keywords of a schema contain the lower-cased name of every field
\* of the schema, none left out, and no entry twice.
C17_KeywordsCoverNames ==
    pc = "done" =>
        /\ \A i \in 1..Len(schema) :
              \E j \in 1..Len(keyword_list) :
                  /\ Len(keyword_list[j]) = Len(schema[i].name)
                  /\ \A q \in 1..Len(schema[i].name) :
                        keyword_list[j][q] = LowerChar(schema[i].name[q])
        /\ \A j \in 1..Len(keyword_list) : \A k \in 1..Len(keyword_list) :
              keyword_list[j] = keyword_list[k] => j = k

\* two fields, a name with an upper-case letter, and a name that is also a
\* word of a description
C17_Witness ==
    /\ pc = "done"
    /\ Len(schema) = 2
    /\ schema[1].name = <<"A", "b">>
    /\ schema[2].name = <<"b">>
    /\ schema[1].description = <<"A", " ", "b">>
    /\ Len(keyword_list) = 3

-----------------------------------------------------------------------------
(* Properties of _is_empty_extraction, checked under SpecEmpty *)

\* the top-level values the emptiness heuristic counts: null, the empty
\* string, the empty list, the empty mapping
EmptyLike(v) == v \in {JNull, JStr(<< >>), JList(<< >>), JObj(<< >>)}
FieldCount == Cardinality(DOMAIN extraction.data)
EmptyFields == {i \in DOMAIN extraction.data : EmptyLike(extraction.data[i])}

\* C18: isEmpty is true exactly when the result has no top-level field or
\* the top-level fields that are null, "", [] or {} are at least 80% of all
\* top-level fields (true for 4 of 5, false for 3 of 5); a field that holds a
\* nested object with fields, even all null, is not one of them.
C18_EmptyAtEightyPercent ==
    pc = "done" =>
        /\ is_empty <=>
              (FieldCount = 0 \/ Cardinality(EmptyFields) * 100 >= 80 * FieldCount)
        /\ (FieldCount = 5 /\ Cardinality(EmptyFields) = 4) => is_empty
        /\ (FieldCount = 5 /\ Cardinality(EmptyFields) = 3) => ~is_empty
        /\ (FieldCount > 0
              /\ \A i \in DOMAIN extraction.data :
                    extraction.data[i] = JObj(<<"k">> :> JNull)) => ~is_empty

\* 4 of 5 fields are empty and the fifth holds a nested object whose only
\* field is null: classified empty
C18_Witness ==
    /\ pc = "done"
    /\ FieldCount = 5
    /\ Cardinality(EmptyFields) = 4
    /\ \E i \in DOMAIN extraction.data : extraction.data[i] = JObj(<<"k">> :> JNull)
    /\ \E i \in DOMAIN extraction.data : extraction.data[i] = JObj(<< >>)
    /\ is_empty

-----------------------------------------------------------------------------
(* Properties of _count_data_items, checked under SpecCount *)

\* C19: the count of a result is the sum over its fields of 1 for every
\* scalar (string, integer, boolean) that is not null and not the empty
\* string, and for a list the number of its non-empty elements.
C19_CountIsDataDensity ==
    pc = "done" => item_count = DataDensity(extraction)

\* What the count is instead: the same sum with the integer 0 and the boolean
\* false left out as well, as fields and as list elements.
FalsyScalar(v) == v = JInt(0) \/ v = JBool(FALSE)
FalsyIn(v) ==
    IF v.t = "list" THEN Cardinality({j \in 1..Len(v.items) : FalsyScalar(v.items[j])})
    ELSE IF FalsyScalar(v) THEN 1 ELSE 0
RECURSIVE FalsyOver(_, _)
FalsyOver(data, keys) ==
    IF keys = {} THEN 0
    ELSE LET k == CHOOSE x \in keys : TRUE
         IN  FalsyIn(data[k]) + FalsyOver(data, keys \ {k})
CountIsDensityLessFalsy ==
    pc = "done" =>
        item_count = DataDensity(extraction)
                       - FalsyOver(extraction.data, DOMAIN extraction.data)

-----------------------------------------------------------------------------
(* Properties of the browser session, checked under SpecBrowser *)

\* C20: a browser session that has started the automation engine ends, on
\* every exit path (normal completion, an exception in the body, a failed
\* browser launch in __enter__, a failed close of the browser), with the
\* engine stopped and no browser and no browser context left open.
C20_TeardownOnEveryExit ==
    (pc = "done" /\ engine # "none") =>
        /\ engine = "stopped"
        /\ browser # "open"
        /\ context # "open"

\* The teardown the code does give: a session whose browser was launched and
\* whose close() returned ends with the engine stopped and no context open,
\* whether the body returned or raised.
TeardownWhenBrowserCloses ==
    (pc = "done" /\ browser = "closed") =>
        /\ engine = "stopped"
        /\ context # "open"
        /\ session = (IF raising THEN "raised" ELSE "returned")

-----------------------------------------------------------------------------
(* SpecConcurrent: two callers of extract on one ScraparoniExtractor. Each   *)
(* call makes its oracle invocations one after the other (extractor.py:94,   *)
(* 182, 207 call _extract_single and wait for it); _generate                 *)
(* (extractor.py:313-370) takes no lock before self.model.generate. Here pc  *)
(* gives the position of each caller. The callers either wrap extract in a   *)
(* lock of their own (serialized) or do not.                                 *)

Callers == {1, 2}
NoCaller == 0
\* extractor.py:176-213: the ranked attempts of a call and its fallback
MaxGenerate == MaxChunks + 1

\* mutant: the next invocation is issued while one is still in flight
may_generate_pipelined(flights, made) == flights + made < MaxGenerate

\* extractor.py:131, 182, 207: an invocation is a plain call, the caller goes
\* on when it has returned
may_generate(flights, made) == flights = 0 /\ made < MaxGenerate

concFrame == <<schema, engineVars, parseVars, scoreVars, keyword_list, resultVars,
               browserVars, outside_call, scrapeVars, callVars>>

\* a caller calls extract (with the callers' lock taken first, if they use one)
call_extract(c) ==
    /\ pc[c] = "idle"
    /\ IF serialized
       THEN lock_holder = NoCaller /\ lock_holder' = c
       ELSE UNCHANGED lock_holder
    /\ pc' = [pc EXCEPT ![c] = "extract"]
    /\ UNCHANGED <<serialized, in_flight, generated>>
    /\ UNCHANGED concFrame

\* extractor.py:131, 351  _generate is entered and self.model.generate runs
generate_begin(c) ==
    /\ pc[c] = "extract"
    /\ may_generate(in_flight[c], generated[c])
    /\ in_flight' = [in_flight EXCEPT ![c] = @ + 1]
    /\ UNCHANGED <<pc, serialized, lock_holder, generated>>
    /\ UNCHANGED concFrame

\* extractor.py:351-370  self.model.generate returns, or raises
generate_end(c) ==
    /\ in_flight[c] > 0
    /\ in_flight' = [in_flight EXCEPT ![c] = @ - 1]
    /\ generated' = [generated EXCEPT ![c] = @ + 1]
    /\ UNCHANGED <<pc, serialized, lock_holder>>
    /\ UNCHANGED concFrame

\* extractor.py:94, 204, 207  extract returns or raises after at least one
\* invocation
extract_leave(c) ==
    /\ pc[c] = "extract"
    /\ in_flight[c] = 0
    /\ generated[c] > 0
    /\ pc' = [pc EXCEPT ![c] = "done"]
    /\ lock_holder' = IF serialized THEN NoCaller ELSE lock_holder
    /\ UNCHANGED <<serialized, in_flight, generated>>
    /\ UNCHANGED concFrame

InitConcurrent ==
    /\ EngineIdle
    /\ HelpersIdle
    /\ BrowserIdle
    /\ outside_call = NoOutsideCall
    /\ use_browser = FALSE
    /\ auto_fallback = FALSE
    /\ page_html = EmptyStr
    /\ scrape_log = << >>
    /\ scrape_out = NoOutcome
    /\ urls = 0
    /\ many_results = << >>
    /\ scraped = << >>
    /\ serialized \in BOOLEAN
    /\ lock_holder = NoCaller
    /\ in_flight = [c \in Callers |-> 0]
    /\ generated = [c \in Callers |-> 0]
    /\ engine_self = EngineSelf
    /\ call_no = 1
    /\ past_outcomes = << >>
    /\ html_contents = << >>
    /\ batch_results = << >>
    /\ batch_log = << >>
    /\ batch_out = NoOutcome
    /\ pc = [c \in Callers |-> "idle"]

NextConcurrent ==
    \E c \in Callers :
        \/ call_extract(c)
        \/ generate_begin(c)
        \/ generate_end(c)
        \/ extract_leave(c)

SpecConcurrent == InitConcurrent /\ [][NextConcurrent]_vars

-----------------------------------------------------------------------------
(* SpecCalls: extract called again and again on one engine. A call gets new  *)
(* arguments; the names of its frame are unbound until it assigns them, here *)
(* they still hold what the call before left in them. calls, chunk_starts,   *)
(* path and outcome record the call under way.                               *)

MaxCalls == 2
\* documents whose first chunk alone can score, split into three chunks
CallDocuments == {d \in Documents : d.len = 1503 /\ DOMAIN d.at \subseteq {1, 2}}
CallMaxLengths == {1501}

InitCalls ==
    /\ AuxIdle
    /\ html_content \in CallDocuments
    /\ schema \in Schemas
    /\ max_length \in CallMaxLengths
    /\ smart_chunking \in BOOLEAN
    /\ pc = "extract"
    /\ path = "none"
    /\ field_keywords = {}
    /\ scored_chunks = << >>
    /\ rank = 0
    /\ best_result = NoneValue
    /\ best_data_count = 0
    /\ text = EmptyStr
    /\ chunk_size = 0
    /\ overlap = 0
    /\ start = 0
    /\ chunks = << >>
    /\ chunk_starts = << >>
    /\ calls = << >>
    /\ outcome = NoOutcome

\* extractor.py:64-73  the next call of extract on the same engine
extract_again ==
    /\ pc = "done"
    /\ call_no < MaxCalls
    /\ html_content' \in CallDocuments
    /\ schema' \in Schemas
    /\ max_length' \in CallMaxLengths
    /\ smart_chunking' \in BOOLEAN
    /\ pc' = "extract"
    /\ path' = "none"
    /\ calls' = << >>
    /\ chunk_starts' = << >>
    /\ outcome' = NoOutcome
    /\ call_no' = call_no + 1
    /\ past_outcomes' = Append(past_outcomes, outcome)
    /\ UNCHANGED <<field_keywords, scored_chunks, rank, best_result, best_data_count,
                   text, chunk_size, overlap, start, chunks, engine_self>>
    /\ UNCHANGED <<parseVars, scoreVars, keyword_list, resultVars, browserVars,
                   outside_call, scrapeVars, concVars, batchVars>>

NextCalls == Next \/ extract_again

SpecCalls == InitCalls /\ [][NextCalls]_vars

-----------------------------------------------------------------------------
(* SpecScrapeMany: one call of Scraparoni.scrape_many (core.py:233-265) on a *)
(* list of urls, each url scraped by the steps of SpecScrape. use_browser is *)
(* the argument of scrape_many; auto_fallback is True unless the keyword     *)
(* arguments passed on to scrape say otherwise.                              *)

MaxUrls == 2

\* mutant: no except clause around the scrape of a url
many_catches_nothing(out) == FALSE

\* core.py:263  except Exception as e
many_catches(out) == TRUE

manyFrame == <<schema, engineVars, parseVars, scoreVars, keyword_list, resultVars,
               browserVars, outside_call, concVars, callVars>>

\* core.py:259-261  the loop takes the next url and calls self.scrape
many_scrape_next ==
    /\ pc = "many"
    /\ Len(many_results) < urls
    /\ pc' = "scrape"
    /\ UNCHANGED <<use_browser, auto_fallback, page_html, scrape_log, scrape_out, urls,
                   many_results, scraped>>
    /\ UNCHANGED manyFrame

\* core.py:261-265  results.append(result), or results.append(None) in the
\* except clause; the frame of the scrape call is gone
many_append ==
    /\ pc = "scrape_done"
    /\ scraped' = Append(scraped, scrape_out)
    /\ IF scrape_out.kind = "returned"
       THEN /\ many_results' = Append(many_results, scrape_out.result)
            /\ pc' = "many"
       ELSE IF many_catches(scrape_out)
            THEN /\ many_results' = Append(many_results, NoneValue)
                 /\ pc' = "many"
            ELSE /\ pc' = "many_raised"
                 /\ UNCHANGED many_results
    /\ page_html' = EmptyStr
    /\ scrape_log' = << >>
    /\ scrape_out' = NoOutcome
    /\ UNCHANGED <<use_browser, auto_fallback, urls>>
    /\ UNCHANGED manyFrame

\* core.py:267  return results
many_return ==
    /\ pc = "many"
    /\ Len(many_results) = urls
    /\ pc' = "done"
    /\ UNCHANGED scrapeVars
    /\ UNCHANGED manyFrame

InitScrapeMany ==
    /\ EngineIdle
    /\ HelpersIdle
    /\ BrowserIdle
    /\ outside_call = NoOutsideCall
    /\ use_browser \in BOOLEAN
    /\ auto_fallback \in BOOLEAN
    /\ page_html = EmptyStr
    /\ scrape_log = << >>
    /\ scrape_out = NoOutcome
    /\ urls \in 0..MaxUrls
    /\ many_results = << >>
    /\ scraped = << >>
    /\ serialized = FALSE
    /\ lock_holder = 0
    /\ in_flight = << >>
    /\ generated = << >>
    /\ engine_self = EngineSelf
    /\ call_no = 1
    /\ past_outcomes = << >>
    /\ html_contents = << >>
    /\ batch_results = << >>
    /\ batch_log = << >>
    /\ batch_out = NoOutcome
    /\ pc = "many"

NextScrapeMany ==
    \/ many_scrape_next
    \/ ScrapeSteps
    \/ many_append
    \/ many_return

SpecScrapeMany == InitScrapeMany /\ [][NextScrapeMany]_vars

-----------------------------------------------------------------------------
(* SpecBatch: one call of extract_batch (extractor.py:259-282). Each         *)
(* document goes through the steps of extract; the schema and the keyword    *)
(* arguments max_length and smart_chunking are those of the batch. pc is     *)
(* "batch" between two documents and "batch_done" when extract_batch is      *)
(* over; calls, chunk_starts, path and outcome record the extract under way. *)

MaxBatch == 2
\* one document per length: decided in a single shot, or split in chunks
BatchDocuments ==
    {d \in Documents : DOMAIN d.at = {1, 2} /\ d.at[1] = "b" /\ d.at[2] = "A"}
BatchLists == UNION {[1..n -> BatchDocuments] : n \in 0..MaxBatch}
BatchCall(html, out) == [html |-> html, out |-> out]

\* mutant: the failure of a document is passed over
batch_propagates_never(out) == FALSE

\* extractor.py:280  self.extract(...) is called outside any try statement
batch_propagates(out) == TRUE

batchFrame == <<parseVars, scoreVars, keyword_list, resultVars, browserVars,
                outside_call, scrapeVars, concVars, engine_self, call_no, past_outcomes>>

\* extractor.py:279-280  the loop takes the next document and calls extract
batch_extract_next ==
    /\ pc = "batch"
    /\ Len(batch_log) < Len(html_contents)
    /\ html_content' = html_contents[Len(batch_log) + 1]
    /\ pc' = "extract"
    /\ path' = "none"
    /\ calls' = << >>
    /\ chunk_starts' = << >>
    /\ outcome' = NoOutcome
    /\ UNCHANGED <<schema, max_length, smart_chunking, field_keywords, scored_chunks,
                   rank, best_result, best_data_count, text, chunk_size, overlap,
                   start, chunks>>
    /\ UNCHANGED batchVars
    /\ UNCHANGED batchFrame

\* extractor.py:280-281  extract has returned and results.append(result), or
\* extract has raised and the exception leaves extract_batch
batch_collect ==
    /\ pc = "done"
    /\ batch_log' = Append(batch_log, BatchCall(html_content, outcome))
    /\ IF outcome.kind = "returned"
       THEN /\ batch_results' = Append(batch_results, outcome.result)
            /\ pc' = "batch"
            /\ UNCHANGED batch_out
       ELSE IF batch_propagates(outcome)
            THEN /\ batch_out' = outcome
                 /\ pc' = "batch_done"
                 /\ UNCHANGED batch_results
            ELSE /\ pc' = "batch"
                 /\ UNCHANGED <<batch_results, batch_out>>
    /\ UNCHANGED html_contents
    /\ UNCHANGED <<schema, engineVars>>
    /\ UNCHANGED batchFrame

\* extractor.py:282  return results
batch_return ==
    /\ pc = "batch"
    /\ Len(batch_log) = Len(html_contents)
    /\ batch_out' = Returned(batch_results)
    /\ pc' = "batch_done"
    /\ UNCHANGED <<html_contents, batch_results, batch_log>>
    /\ UNCHANGED <<schema, engineVars>>
    /\ UNCHANGED batchFrame

InitBatch ==
    /\ HelpersIdleButSchema
    /\ BrowserIdle
    /\ outside_call = NoOutsideCall
    /\ use_browser = FALSE
    /\ auto_fallback = FALSE
    /\ page_html = EmptyStr
    /\ scrape_log = << >>
    /\ scrape_out = NoOutcome
    /\ urls = 0
    /\ many_results = << >>
    /\ scraped = << >>
    /\ serialized = FALSE
    /\ lock_holder = 0
    /\ in_flight = << >>
    /\ generated = << >>
    /\ engine_self = EngineSelf
    /\ call_no = 1
    /\ past_outcomes = << >>
    /\ html_contents \in BatchLists
    /\ batch_results = << >>
    /\ batch_log = << >>
    /\ batch_out = NoOutcome
    /\ schema \in Schemas
    /\ max_length \in CallMaxLengths
    /\ smart_chunking \in BOOLEAN
    /\ html_content = EmptyStr
    /\ pc = "batch"
    /\ path = "none"
    /\ field_keywords = {}
    /\ scored_chunks = << >>
    /\ rank = 0
    /\ best_result = NoneValue
    /\ best_data_count = 0
    /\ text = EmptyStr
    /\ chunk_size = 0
    /\ overlap = 0
    /\ start = 0
    /\ chunks = << >>
    /\ chunk_starts = << >>
    /\ calls = << >>
    /\ outcome = NoOutcome

NextBatch ==
    \/ batch_extract_next
    \/ Next
    \/ batch_collect
    \/ batch_return

SpecBatch == InitBatch /\ [][NextBatch]_vars

-----------------------------------------------------------------------------
(* Claims about Scraparoni.scrape                                            *)

ScrapeDone == pc = "scrape_done"
EventsOf(op) == {k \in 1..Len(scrape_log) : scrape_log[k].op = op}
BrowserFetches == EventsOf("browser")
HttpFetches == EventsOf("http")
ExtractRuns == EventsOf("extract")
\* a page under 500 characters or without "<body" in any mix of cases
ShellPage(page) ==
    \/ page.len < 500
    \/ ~\E p \in 0..(page.len - 5) :
          \A i \in 1..5 : LowerChar(CharAt(page, p + i)) = BodyTag[i]
\* isEmpty of the specification: no field, or 80% of the fields empty
EmptyResult(result) ==
    LET n == Cardinality(DOMAIN result.data)
        e == Cardinality({i \in DOMAIN result.data : EmptyLike(result.data[i])})
    IN  n = 0 \/ 5 * e >= 4 * n
\* before event k: the HTTP fetch failed or returned a shell page, or the first
\* extraction returned a result that is classified empty
FallbackReason(k) ==
    \E j \in 1..(k - 1) :
        \/ scrape_log[j].op = "http" /\ ~scrape_log[j].ok
        \/ scrape_log[j].op = "http" /\ scrape_log[j].ok /\ ShellPage(scrape_log[j].page)
        \/ /\ scrape_log[j].op = "extract"
           /\ scrape_log[j].site = "first"
           /\ scrape_log[j].ok
           /\ EmptyResult(scrape_log[j].result)

\* C21: every browser fetch of a scrape call is made with use_browser set, or
\* with auto_fallback set after the HTTP fetch failed or returned a page under
\* 500 characters or without "<body", or after the first extraction returned a
\* result classified empty; with both flags off no browser fetch is made, and
\* with use_browser set no HTTP fetch is made
C21_BrowserOnlyWhenCalledFor ==
    /\ \A k \in BrowserFetches : use_browser \/ (auto_fallback /\ FallbackReason(k))
    /\ (~use_browser /\ ~auto_fallback) => BrowserFetches = {}
    /\ use_browser => HttpFetches = {}

\* a scrape with use_browser off that fetched a full page over HTTP, found the
\* first result empty and fetched again through the browser
C21_Witness ==
    /\ ~use_browser
    /\ \E k \in BrowserFetches :
          /\ scrape_log[k].site = "refetch"
          /\ \A j \in HttpFetches : scrape_log[j].ok /\ ~ShellPage(scrape_log[j].page)

Surfaced == scrape_out.kind = "raised" /\ scrape_out.result = NoneValue
\* the failed HTTP fetch is answered by one browser fetch, the next call made
AnsweredByBrowser(j) ==
    /\ j < Len(scrape_log)
    /\ scrape_log[j + 1].op = "browser"
    /\ Cardinality({k \in BrowserFetches : scrape_log[k].site = scrape_log[j + 1].site}) = 1
HttpFailureHandled ==
    \A j \in HttpFetches :
        ~scrape_log[j].ok =>
            IF auto_fallback THEN AnsweredByBrowser(j) ELSE Surfaced

\* C22: when scrape has ended, a failed HTTP fetch has surfaced if
\* auto_fallback is off and has been followed by one browser fetch if it is
\* on; every failed browser fetch and every failed extraction has surfaced,
\* with no result returned
C22_FailuresSurface ==
    ScrapeDone =>
        /\ HttpFailureHandled
        /\ \A k \in BrowserFetches : ~scrape_log[k].ok => Surfaced
        /\ \A k \in ExtractRuns : ~scrape_log[k].ok => Surfaced

\* what holds of the code: as C22 for every browser fetch but the one made
\* inside the try statement (core.py:120), whose failure is answered by the
\* browser fetch of the except clause
FailuresSurfaceOutsideTry ==
    ScrapeDone =>
        /\ HttpFailureHandled
        /\ \A k \in BrowserFetches :
              ~scrape_log[k].ok =>
                  IF scrape_log[k].site = "shell"
                  THEN /\ k < Len(scrape_log)
                       /\ scrape_log[k + 1].op = "browser"
                       /\ scrape_log[k + 1].site = "except"
                  ELSE Surfaced
        /\ \A k \in ExtractRuns : ~scrape_log[k].ok => Surfaced

Refetches == {k \in BrowserFetches : scrape_log[k].site = "refetch"}
\* the re-acquisition k that succeeded is followed by one extraction, the last
\* call of the scrape, and scrape ends as that extraction ended
ReextractionReturned(k) ==
    /\ {j \in ExtractRuns : j > k} = {k + 1}
    /\ Len(scrape_log) = k + 1
    /\ IF scrape_log[k + 1].ok
       THEN scrape_out = Returned(scrape_log[k + 1].result)
       ELSE Surfaced
RetriedOnce ==
    /\ Cardinality(ExtractRuns) <= 2
    /\ Cardinality(Refetches) <= 1
    /\ \A k \in Refetches : (ScrapeDone /\ scrape_log[k].ok) => ReextractionReturned(k)

\* C23: a scrape call runs at most two extractions and makes at most one
\* browser fetch; the browser fetch after an empty first result is made at
\* most once, is followed by one more extraction whose result or error is what
\* scrape ends with, and is not made when the html came from the browser
C23_RetryOnce ==
    /\ RetriedOnce
    /\ Cardinality(BrowserFetches) <= 1
    /\ \A k \in Refetches : \A j \in BrowserFetches : j >= k

\* what holds of the code: the retry is withheld by the use_browser flag, not
\* by where the html came from, and up to three browser fetches are made
RetryOnceUnlessForced ==
    /\ RetriedOnce
    /\ Cardinality(BrowserFetches) <= 3
    /\ use_browser => Refetches = {}

-----------------------------------------------------------------------------
(* Claims about BrowserScraper outside its session                           *)

Refused == outside_call.error = "RuntimeError" /\ ~outside_call.touched

\* C24: a call of fetch or fetch_with_interaction made before the session was
\* entered or after it was left ends with the RuntimeError and touches no
\* browser
C24_RefusedOutsideSession ==
    outside_call.method # "none" => Refused

\* what holds of the code: the call is refused while self._browser was never
\* set, that is before __enter__ and after an __enter__ that failed
RefusedWhileNeverLaunched ==
    (outside_call.method # "none" /\ ~self_browser) => Refused

-----------------------------------------------------------------------------
(* Claims about callers sharing one engine                                   *)

InFlight == {c \in Callers : in_flight[c] > 0}

\* C25: a single extract call never has more than one generation in flight,
\* and callers that serialize themselves never have two in flight between
\* them; nothing else keeps the generations of two callers apart (the witness:
\* without the callers' lock both are inside model.generate at once)
C25_OneGenerationPerCall ==
    /\ \A c \in Callers : in_flight[c] <= 1
    /\ serialized => Cardinality(InFlight) <= 1

\* two callers that do not serialize themselves, each with a generation in
\* flight on the one model
C25_Witness ==
    /\ ~serialized
    /\ \A c \in Callers : in_flight[c] = 1

-----------------------------------------------------------------------------
(* Claims about failures on the chunked path                                 *)

FailureKinds == {"oracle", "format", "validation"}
NewCall(phase) ==
    /\ Len(calls') = Len(calls) + 1
    /\ calls'[Len(calls')].phase = phase

\* C28: a ranked attempt that fails, be it by an exception of the oracle
\* invocation, a format error or a validation error, leaves extract in its
\* loop with no outcome, and every chunk scoring >= 0.4 is attempted whatever
\* failed before it; the fallback attempt that fails in any of these ways
\* ends extract with that failure
C28_AbsorbedInLoopRaisedInFallback ==
    /\ [][ \A e \in FailureKinds :
              (NewCall("rank") /\ calls'[Len(calls')].out = Raised(e))
                 => (pc' = "iterate" /\ outcome' = NoOutcome) ]_vars
    /\ [][ \A e \in FailureKinds :
              (NewCall("fallback") /\ calls'[Len(calls')].out = Raised(e))
                 => (pc' = "done" /\ outcome' = Raised(e)) ]_vars
    /\ [](Done /\ path = "chunked" =>
            \A j \in 1..Len(scored_chunks) :
                AtOrAboveFloor(scored_chunks[j].score) => Attempted(scored_chunks[j].i))

\* the oracle invocation failed on the first ranked chunk, the next chunk was
\* attempted and failed validation, and the fallback attempt ended extract
\* with the failure of the oracle invocation
C28_Witness ==
    /\ Done /\ path = "chunked"
    /\ Cardinality(CallsOf("rank")) >= 2
    /\ calls[1].out = Raised("oracle")
    /\ calls[2].phase = "rank" /\ calls[2].out = Raised("validation")
    /\ LastCall.phase = "fallback"
    /\ outcome = Raised("oracle")

-----------------------------------------------------------------------------
(* Claims about the number of oracle invocations                             *)

TopChunk == scored_chunks[1].i
RankCallsOn(i) == {k \in CallsOf("rank") : calls[k].i = i}
FallbackMade == CallsOf("fallback") # {}
\* at most N + 1 invocations and at least one; every chunk at most once in the
\* ranked iteration; the fallback is on the top-scored chunk
WithinBudget ==
    /\ Len(calls) >= 1
    /\ Len(calls) <= Len(chunks) + 1
    /\ \A i \in 0..(Len(chunks) - 1) : Cardinality(RankCallsOn(i)) <= 1
    /\ Cardinality(CallsOf("fallback")) <= 1
    /\ \A k \in CallsOf("fallback") : calls[k].html = scored_chunks[1].chunk

\* C27: when a chunked extract with overlap < size is over it has made between
\* 1 and N + 1 oracle invocations, no chunk was attempted twice by the ranked
\* iteration, and the top-scored chunk was attempted a second time, by the
\* fallback, exactly when the ranked iteration attempted it and no attempt
\* yielded DataDensity > 0
C27_InvocationBudget ==
    (Done /\ path = "chunked" /\ overlap < chunk_size) =>
        /\ WithinBudget
        /\ (FallbackMade /\ Attempted(TopChunk)) <=> (Attempted(TopChunk) /\ Found = {})

\* what holds of the code: the same with the engine's own count in place of
\* DataDensity
InvocationBudget_ByCount ==
    (Done /\ path = "chunked" /\ overlap < chunk_size) =>
        /\ WithinBudget
        /\ (FallbackMade /\ Attempted(TopChunk)) <=> (Attempted(TopChunk) /\ FoundByCount = {})

\* a chunked extract with overlap < size comes to its end
FairSpec == Spec /\ WF_vars(Next)
ChunkedTerminates ==
    (path = "chunked" /\ overlap < chunk_size) ~> Done

-----------------------------------------------------------------------------
(* Claims about successive calls on one engine                               *)

\* what a chunked call that is over shows when all it used was its own: the
\* keywords are those of its schema, the chunks are slices of its document and
\* each is scored once, the attempts are the chunks scoring >= 0.4, and what
\* it returned is the result of one of its own oracle invocations, the first
\* of highest count when one counted above 0
OwnCallOnly ==
    (Done /\ path = "chunked") =>
        /\ field_keywords = extract_keywords_from_schema(schema)
        /\ Len(chunks) = Len(chunk_starts)
        /\ \A i \in 1..Len(chunks) :
              chunks[i] = PySlice(html_content, chunk_starts[i], chunk_starts[i] + max_length)
        /\ Len(scored_chunks) = Len(chunks)
        /\ \A i \in 1..Len(chunks) :
              \E j \in 1..Len(scored_chunks) :
                  /\ scored_chunks[j].i = i - 1
                  /\ scored_chunks[j].chunk = chunks[i]
                  /\ scored_chunks[j].score = score_chunk_relevance(chunks[i], field_keywords)
        /\ \A j \in 1..Len(scored_chunks) :
              Attempted(scored_chunks[j].i) <=> AtOrAboveFloor(scored_chunks[j].score)
        /\ BestOfRanked_ByCount
        /\ FoundByCount = {} => (CallsOf("fallback") = {Len(calls)} /\ outcome = LastCall.out)
        /\ outcome.kind = "returned" =>
              \E k \in 1..Len(calls) : calls[k].out = Returned(outcome.result)

\* C26: no step of extract changes the attributes of the engine, and a call
\* made after other calls on the same engine uses and returns only what it
\* derived itself from its own arguments and oracle outputs
C26_CallLeavesEngineAlone ==
    /\ [][engine_self' = engine_self]_vars
    /\ [](call_no > 1 => OwnCallOnly)

\* the first call returned a result of the ranked iteration; the second call,
\* on the same engine, found nothing and ended with the error of its fallback
C26_Witness ==
    /\ call_no = 2
    /\ Done /\ path = "chunked"
    /\ past_outcomes[1].kind = "returned"
    /\ CallsOf("rank") # {}
    /\ LastCall.phase = "fallback"
    /\ outcome.kind = "raised"

-----------------------------------------------------------------------------
(* Claims about the keywords of nested schemas                               *)

Separators == {" ", "-", ".", ","}
\* k is a word of description d, lower-cased: a run of d between separators
WordOf(k, d) ==
    \E a \in 1..Len(d) : \E b \in a..Len(d) :
        /\ Lower(SubSeq(d, a, b)) = k
        /\ \A q \in a..b : d[q] \notin Separators
        /\ a = 1 \/ d[a - 1] \in Separators
        /\ b = Len(d) \/ d[b + 1] \in Separators
TopLevelKeyword(k) ==
    \E i \in 1..Len(schema) :
        k = Lower(schema[i].name) \/ WordOf(k, schema[i].description)
HasNested == \E i \in 1..Len(schema) : schema[i].type \in {"obj", "list_obj"}

\* C29: every keyword derived from a schema is the lower-cased name of one of
\* its top-level fields or a word of the description of one; the names and
\* description words of the fields of a nested model or of a list's element
\* model are keywords only when they are top-level names or words as well
C29_TopLevelKeywordsOnly ==
    pc = "done" => \A j \in 1..Len(keyword_list) : TopLevelKeyword(keyword_list[j])

\* a schema whose one field is a list of models: its keywords are the field's
\* name and the words of its description, none of the element model's
C29_Witness ==
    /\ pc = "done"
    /\ Len(schema) = 1
    /\ schema[1].type = "list_obj"
    /\ Range(keyword_list) = {<<"a">>, <<"b">>, <<"c">>}
    /\ \A f \in Range(schema[1].fields) : Lower(f.name) \notin Range(keyword_list)

-----------------------------------------------------------------------------
(* Claims about scrape_many                                                  *)

\* C30: scrape_many never ends with an exception; when it returns, every url
\* has been scraped, failures before it notwithstanding, and the list has one
\* entry per url in the order of the urls: the result of that url's scrape, or
\* None when that scrape failed
C30_OneEntryPerUrl ==
    /\ pc # "many_raised"
    /\ pc = "done" =>
          /\ Len(scraped) = urls
          /\ Len(many_results) = urls
          /\ \A i \in 1..urls :
                many_results[i] = IF scraped[i].kind = "returned"
                                  THEN scraped[i].result ELSE NoneValue

\* the scrape of the first url failed, the second url was scraped all the
\* same, and the list returned is None followed by the second result
C30_Witness ==
    /\ pc = "done"
    /\ urls = 2
    /\ scraped[1].kind = "raised"
    /\ scraped[2].kind = "returned"
    /\ many_results = <<NoneValue, scraped[2].result>>

-----------------------------------------------------------------------------
(* Claims about extract_batch                                                *)

BatchDone == pc = "batch_done"
FailedCalls == {i \in 1..Len(batch_log) : batch_log[i].out.kind = "raised"}

\* C31: the i-th extract call of a batch is on the i-th document, so no
\* document is extracted twice or out of turn; no call is made after one that
\* failed; a batch without failure returns the results of all its documents
\* in their order, and a batch with a failure ends with the error of its first
\* failed document and returns no list
C31_BatchInOrderFailFast ==
    /\ Len(batch_log) <= Len(html_contents)
    /\ \A i \in 1..Len(batch_log) : batch_log[i].html = html_contents[i]
    /\ \A i \in FailedCalls : i = Len(batch_log)
    /\ BatchDone =>
          IF FailedCalls = {}
          THEN /\ Len(batch_log) = Len(html_contents)
               /\ batch_out.kind = "returned"
               /\ batch_out.result = [i \in 1..Len(batch_log) |-> batch_log[i].out.result]
          ELSE /\ batch_out.kind = "raised"
               /\ batch_out = batch_log[Len(batch_log)].out

\* a batch of two different documents: the extract of the first succeeded,
\* that of the second failed, and the batch ended with that error
C31_Witness ==
    /\ BatchDone
    /\ Len(html_contents) = 2
    /\ html_contents[1] # html_contents[2]
    /\ Len(batch_log) = 2
    /\ batch_log[1].out.kind = "returned"
    /\ batch_log[2].out.kind = "raised"
    /\ batch_out = batch_log[2].out

\* a batch of two documents whose first extract failed: the second document
\* was never handed to extract
BatchStopsAtFirstFailure ==
    /\ BatchDone
    /\ Len(html_contents) = 2
    /\ Len(batch_log) = 1
    /\ batch_out.kind = "raised"

====
